---------------------------- MODULE Spec2Model ----------------------------
(***************************************************************************)
(* Paper-run event relay of quantlab: event ingress (receivePaperEvent /   *)
(* handlePaperEvent), the event normalizers (normalizeTradeSide,           *)
(* toDateFromEngineTs), the transactional handlers (trade, balance,        *)
(* status) and the socket.io subscription registry (join_paper_run,        *)
(* leave_paper_run, disconnect, emitPaperEvent).                           *)
(***************************************************************************)
EXTENDS Integers, Sequences, FiniteSets, TLC

VARIABLES
    ioInstance,   \* websocketManager.service.ts: module-level Server | null (TRUE = set)
    connected,    \* socket ids with an open socket.io connection
    rooms,        \* socket.io adapter: set of <<room name, socket id>>
    subs,         \* history: <<socket id, run id>> joined and neither left nor disconnected
    inbox,        \* per socket id: indices of pubLog entries emitted to it
    paper_runs,   \* table paper_runs: run id -> row, or NoRow
    trades,       \* table trades: sequence of committed rows
    events,       \* one record per call of POST /internal/event (in flight or answered)
    pubLog,       \* calls of emitPaperEvent, in call order
    checkedOut,   \* pool clients currently checked out (pool.connect without release)
    calls,        \* one record per call of POST /start and POST /stop/:id
    nIn,          \* normalizer harness: the pending call
    nOut          \* normalizer harness: the value returned

relayVars == <<ioInstance, connected, rooms, subs, inbox, paper_runs, trades, events,
               pubLog, checkedOut, calls>>
normVars == <<nIn, nOut>>
vars == <<ioInstance, connected, rooms, subs, inbox, paper_runs, trades, events,
          pubLog, checkedOut, calls, nIn, nOut>>

(***************************************************************************)
(* JavaScript values.  A value is [t, hi, n, s]: t its kind, s its         *)
(* characters when a string, and hi * Base + n its value when a number     *)
(* (two limbs, since 10_000_000_000 and epoch-milliseconds do not fit the  *)
(* checker's integers).  "nan" and "infinity" are the non-finite numbers.  *)
(***************************************************************************)
Base == 10 ^ 5

Norm(hi, n) == [hi |-> hi + (n \div Base), n |-> n % Base]

Undefined == [t |-> "undefined", hi |-> 0, n |-> 0, s |-> <<>>]
Null == [t |-> "null", hi |-> 0, n |-> 0, s |-> <<>>]
NaN == [t |-> "nan", hi |-> 0, n |-> 0, s |-> <<>>]
Infinity == [t |-> "infinity", hi |-> 0, n |-> 1, s |-> <<>>]
Big(hi, n) == [t |-> "number", hi |-> Norm(hi, n).hi, n |-> Norm(hi, n).n, s |-> <<>>]
Num(k) == Big(0, k)
Str(s) == [t |-> "string", hi |-> 0, n |-> 0, s |-> s]
Bool(b) == [t |-> "boolean", hi |-> 0, n |-> IF b THEN 1 ELSE 0, s |-> <<>>]
Obj(k) == [t |-> "object", hi |-> 0, n |-> k, s |-> <<>>]

\* x == null (true for null and undefined)
IsNullish(x) == x.t \in {"undefined", "null"}

\* a ?? b
Coalesce(a, b) == IF IsNullish(a) THEN b ELSE a

\* obj?.field / obj.field of an object given as a function from field names
Get(obj, f) == IF f \in DOMAIN obj THEN obj[f] ELSE Undefined

\* a < b and a > b on finite numbers
NumLt(a, b) == a.hi < b.hi \/ (a.hi = b.hi /\ a.n < b.n)
NumGt(a, b) == NumLt(b, a)

\* a * 1000 on a finite number
Times1000(a) == Big(a.hi * 1000, a.n * 1000)

\* Number.isFinite(x) for x a number
IsFinite(x) == x.t = "number"

\* truthiness (if (x), x ? a : b, !x)
Truthy(x) ==
    CASE x.t \in {"undefined", "null", "nan"} -> FALSE
      [] x.t = "number" -> ~(x.hi = 0 /\ x.n = 0)
      [] x.t = "boolean" -> x.n = 1
      [] x.t = "string" -> Len(x.s) > 0
      [] OTHER -> TRUE

(***************************************************************************)
(* Strings are sequences of one-character strings.                         *)
(***************************************************************************)
LowerToUpper ==
    [a |-> "A", b |-> "B", c |-> "C", d |-> "D", e |-> "E", f |-> "F", g |-> "G",
     h |-> "H", i |-> "I", j |-> "J", k |-> "K", l |-> "L", m |-> "M", n |-> "N",
     o |-> "O", p |-> "P", q |-> "Q", r |-> "R", s |-> "S", t |-> "T", u |-> "U",
     v |-> "V", w |-> "W", x |-> "X", y |-> "Y", z |-> "Z"]

ToUpperCase(s) ==
    [i \in 1..Len(s) |-> IF s[i] \in DOMAIN LowerToUpper THEN LowerToUpper[s[i]] ELSE s[i]]

WhiteSpace == {" ", "\t", "\n"}

RECURSIVE TrimStart(_)
TrimStart(s) ==
    IF Len(s) > 0 /\ Head(s) \in WhiteSpace THEN TrimStart(Tail(s)) ELSE s

RECURSIVE TrimEnd(_)
TrimEnd(s) ==
    IF Len(s) > 0 /\ s[Len(s)] \in WhiteSpace THEN TrimEnd(SubSeq(s, 1, Len(s) - 1)) ELSE s

Trim(s) == TrimEnd(TrimStart(s))

Digits == <<"0", "1", "2", "3", "4", "5", "6", "7", "8", "9">>

DigitValue(c) == (CHOOSE i \in 1..10 : Digits[i] = c) - 1

IsDigit(c) == \E i \in 1..10 : Digits[i] = c

\* decimal digits of a non-negative two-limb number
RECURSIVE LimbDigits(_, _)
LimbDigits(k, width) ==
    IF width = 0 THEN <<>>
    ELSE Append(LimbDigits(k \div 10, width - 1), Digits[(k % 10) + 1])

RECURSIVE DropZeros(_)
DropZeros(s) == IF Len(s) > 1 /\ Head(s) = "0" THEN DropZeros(Tail(s)) ELSE s

NumberToString(x) ==
    LET mag == IF x.hi < 0 THEN Norm(-x.hi, -x.n) ELSE [hi |-> x.hi, n |-> x.n]
        ds == DropZeros(LimbDigits(mag.hi, 10) \o LimbDigits(mag.n, 5))
    IN  IF x.hi < 0 THEN <<"-">> \o ds ELSE ds

\* String(x)
ToStr(x) ==
    CASE x.t = "string" -> x.s
      [] x.t = "number" -> NumberToString(x)
      [] x.t = "nan" -> <<"N", "a", "N">>
      [] x.t = "infinity" -> <<"I", "n", "f", "i", "n", "i", "t", "y">>
      [] x.t = "boolean" -> IF x.n = 1 THEN <<"t", "r", "u", "e">>
                            ELSE <<"f", "a", "l", "s", "e">>
      [] x.t = "null" -> <<"n", "u", "l", "l">>
      [] x.t = "undefined" -> <<"u", "n", "d", "e", "f", "i", "n", "e", "d">>
      [] OTHER -> <<"[", "o", "b", "j", "e", "c", "t", " ", "O", "b", "j", "e", "c", "t", "]">>

\* value of a sequence of decimal digits, most significant first
RECURSIVE DigitsToLimbs(_, _)
DigitsToLimbs(s, acc) ==
    IF Len(s) = 0 THEN acc
    ELSE DigitsToLimbs(Tail(s), Norm(acc.hi * 10, acc.n * 10 + DigitValue(Head(s))))

\* the longest digit string the two limbs hold without overflow
MaxDigits == 14

\* Number(s) for a string s: "" is 0, decimal integers are their value,
\* "Infinity" is infinite, anything else is NaN
StringToNumber(s) ==
    LET body == Trim(s)
        neg == Len(body) > 0 /\ Head(body) = "-"
        ds == IF neg THEN Tail(body) ELSE body
        mag == DigitsToLimbs(ds, [hi |-> 0, n |-> 0])
    IN  IF Len(body) = 0 THEN Num(0)
        ELSE IF ds = <<"I", "n", "f", "i", "n", "i", "t", "y">> THEN Infinity
        ELSE IF Len(ds) = 0 \/ Len(ds) > MaxDigits \/ \E i \in 1..Len(ds) : ~IsDigit(ds[i]) THEN NaN
        ELSE IF neg THEN Big(-mag.hi, -mag.n) ELSE Big(mag.hi, mag.n)

\* Number(x)
ToNumber(x) ==
    CASE x.t \in {"number", "nan", "infinity"} -> x
      [] x.t = "null" -> Num(0)
      [] x.t = "boolean" -> Num(x.n)
      [] x.t = "string" -> StringToNumber(x.s)
      [] OTHER -> NaN


(***************************************************************************)
(* Engine payloads: a JavaScript object (a function from field names to    *)
(* values), or null / undefined when the envelope carries none.            *)
(***************************************************************************)
EmptyFields == [k \in {} |-> Undefined]
PObj(f) == [t |-> "object", f |-> f]
PNull == [t |-> "null", f |-> EmptyFields]
PUndefined == [t |-> "undefined", f |-> EmptyFields]

\* p?.field
OptGet(p, field) == IF p.t = "object" THEN Get(p.f, field) ELSE Undefined

\* p.field throws a TypeError when p is null or undefined
ThrowsOnGet(p) == p.t # "object"

\* fields of an object literal { ...p } (spreading null or undefined adds nothing)
Spread(p) == IF p.t = "object" THEN p.f ELSE EmptyFields

(***************************************************************************)
(* Event Normalizer                                                        *)
(***************************************************************************)
DbTradeSide == {"BUY", "SELL"}

LONG == <<"L", "O", "N", "G">>
BUY == <<"B", "U", "Y">>
SHORT == <<"S", "H", "O", "R", "T">>
SELL == <<"S", "E", "L", "L">>

\* the side token is passed through when it is not recognised
normalizeTradeSide_passThrough(trade) ==
    LET raw == Trim(ToUpperCase(ToStr(Coalesce(OptGet(trade, "side"), Str(<<>>)))))
    IN  IF raw = LONG \/ raw = BUY THEN "BUY"
        ELSE IF raw = SHORT \/ raw = SELL THEN "SELL"
        ELSE IF Len(raw) > 0 THEN "OTHER"
        ELSE "BUY"

\* the price heuristic is consulted before the side field
normalizeTradeSide_pricesFirst(trade) ==
    LET raw == Trim(ToUpperCase(ToStr(Coalesce(OptGet(trade, "side"), Str(<<>>)))))
        entry == ToNumber(Coalesce(OptGet(trade, "entry_price"), Num(0)))
        exit == ToNumber(Coalesce(OptGet(trade, "exit_price"), Num(0)))
    IN  IF IsFinite(entry) /\ IsFinite(exit) /\ ~(entry = exit)
             THEN (IF NumLt(entry, exit) THEN "BUY" ELSE "SELL")
        ELSE IF raw = SHORT \/ raw = SELL THEN "SELL"
        ELSE "BUY"

normalizeTradeSide(trade) ==
    LET raw == Trim(ToUpperCase(ToStr(Coalesce(OptGet(trade, "side"), Str(<<>>)))))
        entry == ToNumber(Coalesce(OptGet(trade, "entry_price"), Num(0)))
        exit == ToNumber(Coalesce(OptGet(trade, "exit_price"), Num(0)))
    IN  IF raw = LONG \/ raw = BUY THEN "BUY"
        ELSE IF raw = SHORT \/ raw = SELL THEN "SELL"
        ELSE IF IsFinite(entry) /\ IsFinite(exit)
             THEN (IF NumLt(entry, exit) THEN "BUY" ELSE "SELL")
        ELSE "BUY"

\* Date values: the current time, an instant in epoch-milliseconds, or Invalid Date
DateNow == [k |-> "now", hi |-> 0, n |-> 0]
InvalidDate == [k |-> "invalid", hi |-> 0, n |-> 0]

\* new Date(x) for a number x
NewDate(x) == IF x.t = "number" THEN [k |-> "ms", hi |-> x.hi, n |-> x.n] ELSE InvalidDate

ISO_2024 ==
    <<"2", "0", "2", "4", "-", "0", "1", "-", "0", "1", "T",
      "0", "0", ":", "0", "0", ":", "0", "0", "Z">>

\* new Date(s) for a string s: Date.parse knows the ISO instant, the rest is invalid
ParseDate(s) ==
    IF s = ISO_2024 THEN [k |-> "ms", hi |-> 17040672, n |-> 0] ELSE InvalidDate

\* 10_000_000_000
TenBillion == Big(100000, 0)

\* x > 10_000_000_000 (false for NaN)
ExceedsTenBillion(x) ==
    x.t = "infinity" \/ (x.t = "number" /\ NumGt(x, TenBillion))

\* x * 1000 (NaN and Infinity stay what they are)
ScaleToMs(x) == IF x.t = "number" THEN Times1000(x) ELSE x

\* the boundary value itself is taken for milliseconds
toDateFromEngineTs_inclusive(ts) ==
    LET asNum == ToNumber(ts)
        ms(x) == IF ExceedsTenBillion(x) \/ x = TenBillion
                 THEN NewDate(x) ELSE NewDate(ScaleToMs(x))
    IN  IF IsNullish(ts) THEN DateNow
        ELSE IF ts.t \in {"number", "nan", "infinity"} THEN ms(ts)
        ELSE IF IsFinite(asNum) THEN ms(asNum)
        ELSE ParseDate(ToStr(ts))

\* seconds are never scaled
toDateFromEngineTs_unscaled(ts) ==
    LET asNum == ToNumber(ts)
    IN  IF IsNullish(ts) THEN DateNow
        ELSE IF ts.t \in {"number", "nan", "infinity"} THEN NewDate(ts)
        ELSE IF IsFinite(asNum) THEN NewDate(asNum)
        ELSE ParseDate(ToStr(ts))

toDateFromEngineTs(ts) ==
    LET asNum == ToNumber(ts)
        ms(x) == IF ExceedsTenBillion(x) THEN NewDate(x) ELSE NewDate(ScaleToMs(x))
    IN  IF IsNullish(ts) THEN DateNow
        ELSE IF ts.t \in {"number", "nan", "infinity"} THEN ms(ts)
        ELSE IF IsFinite(asNum) THEN ms(asNum)
        ELSE ParseDate(ToStr(ts))

(***************************************************************************)
(* Normalizer harness: one call of a normalizer on an engine value.        *)
(***************************************************************************)
SideInputs ==
    {Undefined, Null, Str(<<"L", "O", "N", "G">>), Str(<<"l", "o", "n", "g">>),
     Str(<<" ", "B", "u", "y", " ">>), Str(<<"b", "u", "y">>),
     Str(<<"S", "H", "O", "R", "T">>), Str(<<"\t", "s", "h", "o", "r", "t", "\n">>),
     Str(<<"s", "e", "l", "l">>), Str(<<"H", "O", "L", "D">>), Str(<<>>),
     Str(<<" ">>), Num(1), Bool(TRUE)}

PriceInputs ==
    {Undefined, Null, Num(0), Num(90), Num(100), Num(110),
     Str(<<"1", "0", "0">>), Str(<<"9", "0">>), Str(<<"a", "b", "c">>),
     Str(<<"I", "n", "f", "i", "n", "i", "t", "y">>), Obj(1)}

\* an object with the given fields; a field whose value is undefined is absent
TradeOf(side, entry, exit) ==
    LET all == [side |-> side, entry_price |-> entry, exit_price |-> exit]
        present == {k \in DOMAIN all : all[k].t # "undefined"}
    IN  PObj([k \in present |-> all[k]])

TradeInputs ==
    {TradeOf(s, e, x) : s \in SideInputs, e \in PriceInputs, x \in PriceInputs}
        \cup {PNull, PUndefined}

\* limbs sampled around the seconds / milliseconds boundary
MaxHiSample == 2
MaxLoSample == 1

HiSamples ==
    {0, 100, 17000} \cup {99999 + d : d \in 0..MaxHiSample} \cup {100000 - d : d \in 0..MaxHiSample}

LoSamples == {0, 50000} \cup {d : d \in 0..MaxLoSample} \cup {99999 - d : d \in 0..MaxLoSample}

IntegerSamples ==
    {Big(h, l) : h \in HiSamples, l \in LoSamples}
        \cup {Big(h * 1000, l * 1000) : h \in HiSamples, l \in LoSamples}
        \cup {Big(-h, -l) : h \in HiSamples, l \in LoSamples}

TsInputs ==
    IntegerSamples
        \cup {Str(NumberToString(x)) : x \in IntegerSamples}
        \cup {Undefined, Null, NaN, Str(ISO_2024), Str(<<"s", "o", "o", "n">>),
              Str(<<>>), Bool(TRUE), Obj(1)}

NormIdle == [fn |-> "none", trade |-> PUndefined, ts |-> Undefined]
NormPending ==
    [done |-> FALSE, side |-> "", date |-> DateNow, row |-> [exists |-> FALSE],
     update |-> [t |-> "undefined", f |-> [k \in {} |-> Undefined]]]

CallNormalizeTradeSide ==
    /\ nIn.fn = "normalizeTradeSide" /\ ~nOut.done
    /\ nOut' = [nOut EXCEPT !.done = TRUE, !.side = normalizeTradeSide(nIn.trade)]
    /\ UNCHANGED <<nIn, relayVars>>

CallToDateFromEngineTs ==
    /\ nIn.fn = "toDateFromEngineTs" /\ ~nOut.done
    /\ nOut' = [nOut EXCEPT !.done = TRUE, !.date = toDateFromEngineTs(nIn.ts)]
    /\ UNCHANGED <<nIn, relayVars>>

(***************************************************************************)
(* Persisted state: paper_runs rows and trades rows.                       *)
(***************************************************************************)
RunIds == {"r1", "r2"}
Conns == {"s1", "s2"}

NoRow == [exists |-> FALSE]

ACTIVE == <<"A", "C", "T", "I", "V", "E">>
PAUSED == <<"P", "A", "U", "S", "E", "D">>
STOPPED == <<"S", "T", "O", "P", "P", "E", "D">>
FAILED == <<"F", "A", "I", "L", "E", "D">>

\* CREATE TYPE paper_status
paper_status == {ACTIVE, PAUSED, STOPPED}

\* the row startPaperRun inserts: status ACTIVE, current_balance = initial_balance
NewRun(user, balance) ==
    [exists |-> TRUE, user_id |-> user, status |-> Str(ACTIVE),
     current_balance |-> balance, quote_balance |-> Null, base_balance |-> Null,
     equity |-> Null, last_price |-> Null, position |-> Null]

(***************************************************************************)
(* Engine envelopes {run_id, event_type, payload}.  An absent run_id or    *)
(* event_type is the empty string (both are falsy).                        *)
(***************************************************************************)
PaperEventType == {"trade", "balance", "position", "status", "error", "candle"}

TradePayloads ==
    {PObj([side |-> Str(<<"l", "o", "n", "g">>), entry_price |-> Num(100),
           exit_price |-> Num(110), quantity |-> Num(2), pnl |-> Num(20),
           opened_at |-> Big(17000, 0), closed_at |-> Big(17000000, 500)]),
     PObj([entry_price |-> Num(100)]),
     PNull}

BalancePayloads ==
    {PObj([quote_balance |-> Num(900), base_balance |-> Num(1), equity |-> Num(1000),
           last_price |-> Num(100), position |-> Obj(1)]),
     PObj([quote_balance |-> Num(500)])}

StatusPayloads == {PObj([status |-> Str(STOPPED)]), PObj([status |-> Str(FAILED)])}

RawPayloads == {PObj([price |-> Num(100), run_id |-> Str(<<"r", "2">>)])}

PayloadsOf(type) ==
    CASE type = "trade" -> TradePayloads
      [] type = "balance" -> BalancePayloads
      [] type = "status" -> StatusPayloads
      [] OTHER -> RawPayloads

Envelopes ==
    {[run_id |-> r, event_type |-> ty, payload |-> p] :
        r \in RunIds, ty \in PaperEventType, p \in TradePayloads \cup BalancePayloads
                                                   \cup StatusPayloads \cup RawPayloads}

\* what the engine sends: every event type for run r1, balance and candle events for
\* a run id without a row, and envelopes lacking run_id, event_type or a known type
EngineEnvelopes ==
    {e \in Envelopes : e.payload \in PayloadsOf(e.event_type)
                        /\ (e.run_id = "r2" => e.event_type \in {"balance", "candle"})}
        \cup {[run_id |-> "", event_type |-> "trade", payload |-> PNull]}
        \cup {[run_id |-> "r1", event_type |-> "", payload |-> PUndefined]}
        \cup {[run_id |-> "r1", event_type |-> "order", payload |-> p] : p \in RawPayloads}

\* the run id as a JavaScript string value
RunIdValue(r) == Str(IF r = "r1" THEN <<"r", "1">> ELSE IF r = "r2" THEN <<"r", "2">> ELSE <<>>)

(***************************************************************************)
(* handleTradeEvent: the row computed between BEGIN and INSERT.            *)
(***************************************************************************)
\* the ratio is stored as a fraction of one, not of a hundred
Percent_fraction(pnl, entryPrice, quantity) ==
    IF pnl.t # "number" \/ entryPrice.t # "number" \/ quantity.t # "number"
    THEN [k |-> "nan", num |-> 0, den |-> 1]
    ELSE IF entryPrice.n * quantity.n = 0
    THEN [k |-> IF pnl.n = 0 THEN "nan" ELSE "infinity", num |-> pnl.n, den |-> 0]
    ELSE [k |-> "ratio", num |-> pnl.n, den |-> entryPrice.n * quantity.n]

\* (pnl / (entryPrice * quantity)) * 100 as an unreduced fraction num / den
Percent(pnl, entryPrice, quantity) ==
    IF pnl.t # "number" \/ entryPrice.t # "number" \/ quantity.t # "number"
    THEN [k |-> "nan", num |-> 0, den |-> 1]
    ELSE IF entryPrice.n * quantity.n = 0
    THEN [k |-> IF pnl.n = 0 THEN "nan" ELSE "infinity", num |-> pnl.n, den |-> 0]
    ELSE [k |-> "ratio", num |-> pnl.n * 100, den |-> entryPrice.n * quantity.n]

WholePercent(x) ==
    IF x.t = "number" THEN [k |-> "ratio", num |-> x.n, den |-> 1]
    ELSE [k |-> "nan", num |-> 0, den |-> 1]

\* the row is tagged as a backtest row
TradeRow_backtest(runId, trade) ==
    LET entryPrice == ToNumber(Coalesce(Get(trade.f, "entry_price"), Num(0)))
        exitPrice == IF IsNullish(Get(trade.f, "exit_price")) THEN Null
                     ELSE ToNumber(Get(trade.f, "exit_price"))
        quantity == ToNumber(Coalesce(Get(trade.f, "quantity"), Num(1)))
        pnl == ToNumber(Coalesce(Get(trade.f, "pnl"),
                                 Coalesce(Get(trade.f, "net_pnl"), Num(0))))
        computedPnlPercent ==
            IF ~IsNullish(Get(trade.f, "pnl_percent"))
            THEN WholePercent(ToNumber(Get(trade.f, "pnl_percent")))
            ELSE IF Truthy(entryPrice) THEN Percent(pnl, entryPrice, quantity)
            ELSE WholePercent(Num(0))
        openedAt == IF Truthy(Get(trade.f, "opened_at"))
                    THEN toDateFromEngineTs(Get(trade.f, "opened_at")) ELSE DateNow
        closedAt == IF Truthy(Get(trade.f, "closed_at"))
                    THEN toDateFromEngineTs(Get(trade.f, "closed_at")) ELSE DateNow
    IN  [run_id |-> runId, run_type |-> "BACKTEST", side |-> normalizeTradeSide(trade),
         entry_price |-> entryPrice, exit_price |-> exitPrice, quantity |-> quantity,
         pnl |-> pnl, pnl_percent |-> computedPnlPercent, opened_at |-> openedAt,
         closed_at |-> closedAt, forced_close |-> (Get(trade.f, "forced_close") = Bool(TRUE))]

TradeRow(runId, trade) ==
    LET entryPrice == ToNumber(Coalesce(Get(trade.f, "entry_price"), Num(0)))
        exitPrice == IF IsNullish(Get(trade.f, "exit_price")) THEN Null
                     ELSE ToNumber(Get(trade.f, "exit_price"))
        quantity == ToNumber(Coalesce(Get(trade.f, "quantity"), Num(1)))
        pnl == ToNumber(Coalesce(Get(trade.f, "pnl"),
                                 Coalesce(Get(trade.f, "net_pnl"), Num(0))))
        computedPnlPercent ==
            IF ~IsNullish(Get(trade.f, "pnl_percent"))
            THEN WholePercent(ToNumber(Get(trade.f, "pnl_percent")))
            ELSE IF Truthy(entryPrice) THEN Percent(pnl, entryPrice, quantity)
            ELSE WholePercent(Num(0))
        openedAt == IF Truthy(Get(trade.f, "opened_at"))
                    THEN toDateFromEngineTs(Get(trade.f, "opened_at")) ELSE DateNow
        closedAt == IF Truthy(Get(trade.f, "closed_at"))
                    THEN toDateFromEngineTs(Get(trade.f, "closed_at")) ELSE DateNow
    IN  [run_id |-> runId, run_type |-> "PAPER", side |-> normalizeTradeSide(trade),
         entry_price |-> entryPrice, exit_price |-> exitPrice, quantity |-> quantity,
         pnl |-> pnl, pnl_percent |-> computedPnlPercent, opened_at |-> openedAt,
         closed_at |-> closedAt, forced_close |-> (Get(trade.f, "forced_close") = Bool(TRUE))]

\* INSERT INTO trades: the enum and timestamp columns reject what they cannot hold
TradeRowAccepted(row) ==
    /\ row.side \in DbTradeSide
    /\ row.opened_at.k # "invalid"
    /\ row.closed_at.k # "invalid"

(***************************************************************************)
(* handleBalanceEvent / handleStatusEvent: the values computed between     *)
(* BEGIN and UPDATE.                                                       *)
(***************************************************************************)
BalanceValues(payload) ==
    LET quoteBalance == ToNumber(Coalesce(Get(payload.f, "quote_balance"), Num(0)))
        baseBalance == ToNumber(Coalesce(Get(payload.f, "base_balance"), Num(0)))
        equity == ToNumber(Coalesce(Get(payload.f, "equity"), quoteBalance))
        lastPrice == IF ~IsNullish(Get(payload.f, "last_price"))
                     THEN ToNumber(Get(payload.f, "last_price")) ELSE Null
        positionJson == IF Get(payload.f, "position").t = "object"
                        THEN Get(payload.f, "position") ELSE Null
    IN  [quote_balance |-> quoteBalance, base_balance |-> baseBalance, equity |-> equity,
         last_price |-> lastPrice, positionJson |-> positionJson,
         position |-> Coalesce(Get(payload.f, "position"), Null)]

\* SET last_price = COALESCE($5, last_price), position = COALESCE($6, position):
\* a field the event does not carry keeps its earlier value
BalanceUpdate_merge(row, v) ==
    [row EXCEPT !.current_balance = v.equity, !.quote_balance = v.quote_balance,
                !.base_balance = v.base_balance, !.equity = v.equity,
                !.last_price = IF v.last_price = Null THEN @ ELSE v.last_price,
                !.position = IF v.positionJson = Null THEN @ ELSE v.positionJson]

\* UPDATE paper_runs SET current_balance, quote_balance, ... WHERE id = runId
BalanceUpdate(row, v) ==
    [row EXCEPT !.current_balance = v.equity, !.quote_balance = v.quote_balance,
                !.base_balance = v.base_balance, !.equity = v.equity,
                !.last_price = v.last_price, !.position = v.positionJson]

\* the "update" payload
UpdatePayload(runId, v) ==
    PObj([run_id |-> RunIdValue(runId), quote_balance |-> v.quote_balance,
          base_balance |-> v.base_balance, equity |-> v.equity,
          last_price |-> v.last_price, position |-> v.position])

\* UPDATE paper_runs SET status = $1 (undefined is sent as NULL)
StatusValue(payload) == Coalesce(Get(payload.f, "status"), Null)

StatusUpdate(row, status) == [row EXCEPT !.status = status]

\* the status column holds NULL or a label of paper_status
StatusAccepted(status) ==
    status.t = "null" \/ (status.t = "string" /\ status.s \in paper_status)

\* the payload is dropped and the run id alone is published
MergeRunId_bare(runId, payload) == PObj([k \in {"run_id"} |-> RunIdValue(runId)])

\* { run_id: runId, ...payload }: a run_id of the payload replaces the envelope's
MergeRunId(runId, payload) ==
    PObj([k \in {"run_id"} \cup DOMAIN Spread(payload) |->
            IF k \in DOMAIN Spread(payload) THEN Spread(payload)[k] ELSE RunIdValue(runId)])

(***************************************************************************)
(* Handler harness: the values one trade or balance payload is turned      *)
(* into, computed as handleTradeEvent and handleBalanceEvent compute them.  *)
(***************************************************************************)
\* an object with the fields of all whose value is not undefined
ObjectOf(all) == PObj([k \in {f \in DOMAIN all : all[f].t # "undefined"} |-> all[k]])

PnlInputs ==
    {ObjectOf([entry_price |-> e, quantity |-> q, pnl |-> p, net_pnl |-> n,
               pnl_percent |-> pp]) :
        e \in {Undefined, Num(0), Num(100), Str(<<"a", "b", "c">>)},
        q \in {Undefined, Num(2), Num(0)},
        p \in {Undefined, Num(20), Str(<<"2", "0">>)},
        n \in {Undefined, Num(30)},
        pp \in {Undefined, Null, Num(0), Num(5)}}

BalanceInputs ==
    {ObjectOf([quote_balance |-> qb, base_balance |-> bb, equity |-> eq,
               last_price |-> lp, position |-> pos]) :
        qb \in {Undefined, Null, Num(900), Str(<<"9", "0", "0">>)},
        bb \in {Undefined, Num(1)},
        eq \in {Undefined, Num(0), Num(1000)},
        lp \in {Undefined, Null, Num(0), Num(100)},
        pos \in {Undefined, Null, Obj(1), Str(<<"L", "O", "N", "G">>), Num(0)}}

\* handleTradeEvent, lines 69-92: the row its INSERT carries
CallTradeRow ==
    /\ nIn.fn = "handleTradeEvent" /\ ~nOut.done
    /\ nOut' = [nOut EXCEPT !.done = TRUE, !.row = TradeRow("r1", nIn.trade)]
    /\ UNCHANGED <<nIn, relayVars>>

\* handleBalanceEvent, lines 130-171: the row its UPDATE leaves of a new run, and the
\* payload of its "update" event
CallBalanceValues ==
    /\ nIn.fn = "handleBalanceEvent" /\ ~nOut.done
    /\ nOut' = [nOut EXCEPT
                   !.done = TRUE,
                   !.row = BalanceUpdate(NewRun("u1", Num(1000)), BalanceValues(nIn.trade)),
                   !.update = UpdatePayload("r1", BalanceValues(nIn.trade))]
    /\ UNCHANGED <<nIn, relayVars>>

(***************************************************************************)
(* Subscription Registry (websocketManager.service.ts)                     *)
(***************************************************************************)
\* socket.join(`paper:${runId}`)
JoinRoom(runId) == <<"paper:", runId>>

\* the prefix is forgotten on leave
LeaveRoom_bare(runId) == <<runId>>

\* socket.leave(`paper:${runId}`)
LeaveRoom(runId) == <<"paper:", runId>>

\* the event is sent to every socket, whatever its rooms
EmitTargets_broadcast(runId) == connected

\* ioInstance.to(`paper:${runId}`): the sockets of that room
EmitTargets(runId) == {c \in Conns : <<<<"paper:", runId>>, c>> \in rooms}

\* the connections subscribed to a run by their join / leave / disconnect history
Subscribers(runId) == {c \in Conns : <<c, runId>> \in subs}

initializeWebsocket ==
    /\ ~ioInstance
    /\ ioInstance' = TRUE
    /\ UNCHANGED <<connected, rooms, subs, inbox, paper_runs, trades, events, pubLog,
                   checkedOut, normVars, calls>>

\* io.on("connection"): a browser opens a socket
connection(c) ==
    /\ ioInstance
    /\ c \notin connected
    /\ connected' = connected \cup {c}
    /\ UNCHANGED <<ioInstance, rooms, subs, inbox, paper_runs, trades, events, pubLog,
                   checkedOut, normVars, calls>>

join_paper_run(c, runId) ==
    /\ c \in connected
    /\ rooms' = IF runId = "" THEN rooms ELSE rooms \cup {<<JoinRoom(runId), c>>}
    /\ subs' = IF runId = "" THEN subs ELSE subs \cup {<<c, runId>>}
    /\ UNCHANGED <<ioInstance, connected, inbox, paper_runs, trades, events, pubLog,
                   checkedOut, normVars, calls>>

leave_paper_run(c, runId) ==
    /\ c \in connected
    /\ rooms' = IF runId = "" THEN rooms ELSE rooms \ {<<LeaveRoom(runId), c>>}
    /\ subs' = IF runId = "" THEN subs ELSE subs \ {<<c, runId>>}
    /\ UNCHANGED <<ioInstance, connected, inbox, paper_runs, trades, events, pubLog,
                   checkedOut, normVars, calls>>

\* the handler only logs; socket.io itself takes the socket out of all its rooms
disconnect(c) ==
    /\ c \in connected
    /\ connected' = connected \ {c}
    /\ rooms' = {m \in rooms : m[2] # c}
    /\ subs' = {m \in subs : m[1] # c}
    /\ UNCHANGED <<ioInstance, inbox, paper_runs, trades, events, pubLog, checkedOut,
                   normVars, calls>>

\* emitPaperEvent(runId, event, payload), called while event i is handled
emitPaperEvent(i, runId, event, payload) ==
    /\ pubLog' = Append(pubLog, [ev |-> i, run_id |-> runId, event |-> event,
                                 payload |-> payload, sent |-> ioInstance,
                                 members |-> Subscribers(runId)])
    /\ inbox' = IF ioInstance
                THEN [c \in Conns |-> IF c \in EmitTargets(runId)
                                      THEN inbox[c] \cup {Len(pubLog) + 1} ELSE inbox[c]]
                ELSE inbox

(***************************************************************************)
(* Event Ingress (receivePaperEvent, handlePaperEvent, errorMiddleware)    *)
(***************************************************************************)
MaxEvents == 2

\* new Error(message): a plain Error carries no status
Error(message) == [message |-> message, status |-> 0]

NoError == Error(<<>>)

\* the message of an error thrown by pool.connect or client.query
DatabaseError == <<"database error">>

\* the message of the error a column raises for a value outside its type
InvalidInput == <<"invalid input value">>

\* res.status(err.status || 500).json({success: false, error: {message}})
errorMiddleware(err) ==
    [status |-> IF err.status # 0 THEN err.status ELSE 500, success |-> FALSE,
     message |-> err.message]

\* res.json({success: true})
SuccessResponse == [status |-> 200, success |-> TRUE, message |-> <<>>]

NoResponse == [status |-> 0, success |-> FALSE, message |-> <<>>]

TxTypes == {"trade", "balance", "status"}

NewEvent(env, pc, err, res) ==
    [run_id |-> env.run_id, event_type |-> env.event_type, payload |-> env.payload,
     pc |-> pc, err |-> err, lock |-> FALSE, committed |-> FALSE, writes |-> 0,
     seq |-> 0, res |-> res]

\* if (!run_id || !event_type) throw new Error("Invalid paper event payload")
Invalid(env) == env.run_id = "" \/ env.event_type = ""

\* the default case forwards an unknown event type to the room instead of throwing
receivePaperEvent_lenient(env) ==
    LET i == Len(events) + 1
        rejected(msg) == /\ events' = Append(events, NewEvent(env, "done", Error(msg),
                                                             errorMiddleware(Error(msg))))
                         /\ UNCHANGED <<pubLog, inbox, checkedOut>>
        answered == events' = Append(events, NewEvent(env, "done", NoError, SuccessResponse))
    IN  /\ Len(events) < MaxEvents
        /\ IF Invalid(env)
           THEN rejected(<<"Invalid paper event payload">>)
           ELSE CASE env.event_type \in TxTypes ->
                       \E ok \in BOOLEAN :
                           IF ok
                           THEN /\ events' = Append(events, NewEvent(env, "BEGIN", NoError,
                                                                     NoResponse))
                                /\ checkedOut' = checkedOut + 1
                                /\ UNCHANGED <<pubLog, inbox>>
                           ELSE rejected(DatabaseError)
                  [] env.event_type = "candle" ->
                       /\ emitPaperEvent(i, env.run_id, "candle",
                                         MergeRunId(env.run_id, env.payload))
                       /\ answered
                       /\ UNCHANGED checkedOut
                  [] OTHER ->
                       /\ emitPaperEvent(i, env.run_id, env.event_type, env.payload)
                       /\ answered
                       /\ UNCHANGED checkedOut
        /\ UNCHANGED <<ioInstance, connected, rooms, subs, paper_runs, trades, normVars, calls>>

receivePaperEvent(env) ==
    LET i == Len(events) + 1
        rejected(msg) == /\ events' = Append(events, NewEvent(env, "done", Error(msg),
                                                             errorMiddleware(Error(msg))))
                         /\ UNCHANGED <<pubLog, inbox, checkedOut>>
        answered == events' = Append(events, NewEvent(env, "done", NoError, SuccessResponse))
    IN  /\ Len(events) < MaxEvents
        /\ IF Invalid(env)
           THEN rejected(<<"Invalid paper event payload">>)
           ELSE CASE env.event_type \in TxTypes ->
                       \* const client = await pool.connect()
                       \E ok \in BOOLEAN :
                           IF ok
                           THEN /\ events' = Append(events, NewEvent(env, "BEGIN", NoError,
                                                                     NoResponse))
                                /\ checkedOut' = checkedOut + 1
                                /\ UNCHANGED <<pubLog, inbox>>
                           ELSE rejected(DatabaseError)
                  [] env.event_type \in {"position", "error"} ->
                       /\ emitPaperEvent(i, env.run_id, env.event_type, env.payload)
                       /\ answered
                       /\ UNCHANGED checkedOut
                  [] env.event_type = "candle" ->
                       /\ emitPaperEvent(i, env.run_id, "candle",
                                         MergeRunId(env.run_id, env.payload))
                       /\ answered
                       /\ UNCHANGED checkedOut
                  [] OTHER -> rejected(<<"Unsupported paper event type: ", env.event_type>>)
        /\ UNCHANGED <<ioInstance, connected, rooms, subs, paper_runs, trades, normVars, calls>>

(***************************************************************************)
(* Persistence-and-Fanout Coordinator: handleTradeEvent,                   *)
(* handleBalanceEvent and handleStatusEvent between their await points.    *)
(* pc names the query the handler is waiting for; "committed" is COMMIT    *)
(* done in the database with its answer not yet seen by the handler.       *)
(***************************************************************************)
InFlight(i) == events[i].pc # "done"

\* the catch block: the handler goes on to ROLLBACK with the error it caught
Caught(i, msg) == events' = [events EXCEPT ![i].pc = "ROLLBACK", ![i].err = Error(msg)]

\* what the handler's statement would write
WriteAccepted(e) ==
    CASE e.event_type = "trade" -> TradeRowAccepted(TradeRow(e.run_id, e.payload))
      [] e.event_type = "status" -> StatusAccepted(StatusValue(e.payload))
      [] OTHER -> TRUE

\* another transaction holds the row lock of this run
RowLocked(i) ==
    \E j \in 1..Len(events) : j # i /\ events[j].lock /\ events[j].run_id = events[i].run_id

\* await client.query("BEGIN"), then the values are computed from the payload
TxBegin(i) ==
    /\ events[i].pc = "BEGIN"
    /\ \E ok \in BOOLEAN :
        IF ~ok THEN Caught(i, DatabaseError)
        ELSE IF ThrowsOnGet(events[i].payload) THEN Caught(i, <<"TypeError">>)
        ELSE events' = [events EXCEPT ![i].pc = "WRITE"]
    /\ UNCHANGED <<ioInstance, connected, rooms, subs, inbox, paper_runs, trades, pubLog,
                   checkedOut, normVars, calls>>

\* the INSERT runs outside the transaction and is visible at once
TxWrite_autocommit(i) ==
    LET e == events[i]
        updates == e.event_type \in {"balance", "status"} /\ paper_runs[e.run_id].exists
    IN  /\ e.pc = "WRITE"
        /\ updates => ~RowLocked(i)
        /\ \E ok \in BOOLEAN :
            IF ok /\ WriteAccepted(e)
            THEN /\ events' = [events EXCEPT ![i].pc = "COMMIT", ![i].lock = updates]
                 /\ trades' = IF e.event_type = "trade"
                              THEN Append(trades, [ev |-> i, row |-> TradeRow(e.run_id, e.payload)])
                              ELSE trades
            ELSE Caught(i, IF ok THEN InvalidInput ELSE DatabaseError) /\ UNCHANGED trades
        /\ UNCHANGED <<ioInstance, connected, rooms, subs, inbox, paper_runs,
                       pubLog, checkedOut, normVars, calls>>

\* an UPDATE that matches no row is an error
TxWrite_requiresRow(i) ==
    LET e == events[i]
        updates == e.event_type \in {"balance", "status"} /\ paper_runs[e.run_id].exists
    IN  /\ e.pc = "WRITE"
        /\ updates => ~RowLocked(i)
        /\ \E ok \in BOOLEAN :
            IF ok /\ WriteAccepted(e) /\ (e.event_type = "trade" \/ updates)
            THEN events' = [events EXCEPT ![i].pc = "COMMIT", ![i].lock = updates]
            ELSE Caught(i, IF ok THEN InvalidInput ELSE DatabaseError)
        /\ UNCHANGED <<ioInstance, connected, rooms, subs, inbox, paper_runs, trades,
                       pubLog, checkedOut, normVars, calls>>

\* await client.query(INSERT INTO trades ... / UPDATE paper_runs ...): the statement
\* fails with the connection, or because a column refuses the value it is given
TxWrite(i) ==
    LET e == events[i]
        updates == e.event_type \in {"balance", "status"} /\ paper_runs[e.run_id].exists
    IN  /\ e.pc = "WRITE"
        /\ updates => ~RowLocked(i)
        /\ \E ok \in BOOLEAN :
            IF ok /\ WriteAccepted(e)
            THEN events' = [events EXCEPT ![i].pc = "COMMIT", ![i].lock = updates]
            ELSE Caught(i, IF ok THEN InvalidInput ELSE DatabaseError)
        /\ UNCHANGED <<ioInstance, connected, rooms, subs, inbox, paper_runs, trades,
                       pubLog, checkedOut, normVars, calls>>

\* the number of transactions committed so far
Commits == Cardinality({j \in 1..Len(events) : events[j].committed})

\* first committer wins: a balance update of a run whose snapshot an earlier
\* transaction already replaced is dropped at COMMIT
TxCommit_stale(i) ==
    LET e == events[i]
        stale == \E j \in 1..Len(events) :
                     /\ events[j].committed /\ events[j].event_type = "balance"
                     /\ events[j].run_id = e.run_id
    IN  /\ e.pc = "COMMIT"
        /\ \E ok \in BOOLEAN :
            /\ IF ok
               THEN /\ trades' = IF e.event_type = "trade"
                                 THEN Append(trades, [ev |-> i, row |-> TradeRow(e.run_id, e.payload)])
                                 ELSE trades
                    /\ paper_runs' =
                         IF ~e.lock THEN paper_runs
                         ELSE IF e.event_type = "balance"
                         THEN IF stale THEN paper_runs
                              ELSE [paper_runs EXCEPT ![e.run_id] =
                                        BalanceUpdate(@, BalanceValues(e.payload))]
                         ELSE [paper_runs EXCEPT ![e.run_id] =
                                   StatusUpdate(@, StatusValue(e.payload))]
               ELSE UNCHANGED <<trades, paper_runs>>
            /\ IF ok
               THEN events' = [events EXCEPT ![i].pc = "committed", ![i].lock = FALSE,
                                             ![i].committed = TRUE,
                                             ![i].writes = @ + 1,
                                             ![i].seq = Commits + 1]
               ELSE Caught(i, DatabaseError)
        /\ UNCHANGED <<ioInstance, connected, rooms, subs, inbox, pubLog, checkedOut,
                       normVars, calls>>

\* STOPPED is terminal: the UPDATE has the condition status <> 'STOPPED'
TxCommit_terminal(i) ==
    LET e == events[i]
        stopped == paper_runs[e.run_id].exists /\ paper_runs[e.run_id].status = Str(STOPPED)
    IN  /\ e.pc = "COMMIT"
        /\ \E ok \in BOOLEAN :
            /\ IF ok
               THEN /\ trades' = IF e.event_type = "trade"
                                 THEN Append(trades, [ev |-> i, row |-> TradeRow(e.run_id, e.payload)])
                                 ELSE trades
                    /\ paper_runs' =
                         IF ~e.lock \/ stopped THEN paper_runs
                         ELSE IF e.event_type = "balance"
                         THEN [paper_runs EXCEPT ![e.run_id] =
                                   BalanceUpdate(@, BalanceValues(e.payload))]
                         ELSE [paper_runs EXCEPT ![e.run_id] =
                                   StatusUpdate(@, StatusValue(e.payload))]
               ELSE UNCHANGED <<trades, paper_runs>>
            /\ IF ok
               THEN events' = [events EXCEPT ![i].pc = "committed", ![i].lock = FALSE,
                                             ![i].committed = TRUE,
                                             ![i].writes = @ + 1,
                                             ![i].seq = Commits + 1]
               ELSE Caught(i, DatabaseError)
        /\ UNCHANGED <<ioInstance, connected, rooms, subs, inbox, pubLog, checkedOut,
                       normVars, calls>>

\* await client.query("COMMIT"), as executed by the database; writes counts the
\* statements it makes durable and seq is its place in the commit order
TxCommit(i) ==
    LET e == events[i]
    IN  /\ e.pc = "COMMIT"
        /\ \E ok \in BOOLEAN :
            /\ IF ok
               THEN /\ trades' = IF e.event_type = "trade"
                                 THEN Append(trades, [ev |-> i, row |-> TradeRow(e.run_id, e.payload)])
                                 ELSE trades
                    /\ paper_runs' =
                         IF ~e.lock THEN paper_runs
                         ELSE IF e.event_type = "balance"
                         THEN [paper_runs EXCEPT ![e.run_id] =
                                   BalanceUpdate(@, BalanceValues(e.payload))]
                         ELSE [paper_runs EXCEPT ![e.run_id] =
                                   StatusUpdate(@, StatusValue(e.payload))]
               ELSE UNCHANGED <<trades, paper_runs>>
            /\ IF ok
               THEN events' = [events EXCEPT ![i].pc = "committed", ![i].lock = FALSE,
                                             ![i].committed = TRUE,
                                             ![i].writes = @ + 1,
                                             ![i].seq = Commits + 1]
               ELSE Caught(i, DatabaseError)
        /\ UNCHANGED <<ioInstance, connected, rooms, subs, inbox, pubLog, checkedOut,
                       normVars, calls>>

\* every handler publishes under the name of its event type
Published_rawName(e) ==
    CASE e.event_type = "trade" ->
             [event |-> e.event_type, payload |-> MergeRunId(e.run_id, e.payload)]
      [] e.event_type = "balance" ->
             [event |-> e.event_type,
              payload |-> UpdatePayload(e.run_id, BalanceValues(e.payload))]
      [] OTHER -> [event |-> e.event_type, payload |-> e.payload]

\* the payload each handler publishes after COMMIT
Published(e) ==
    CASE e.event_type = "trade" ->
             [event |-> "trade", payload |-> MergeRunId(e.run_id, e.payload)]
      [] e.event_type = "balance" ->
             [event |-> "update", payload |-> UpdatePayload(e.run_id, BalanceValues(e.payload))]
      [] OTHER -> [event |-> "status", payload |-> e.payload]

\* emitPaperEvent throws while no Server is registered, and the handler fails with it
TxPublish_requiresIo(i) ==
    LET e == events[i]
        err == Error(<<"Websocket not initialized">>)
    IN  /\ e.pc = "committed"
        /\ emitPaperEvent(i, e.run_id, Published(e).event, Published(e).payload)
        /\ events' = IF ioInstance
                      THEN [events EXCEPT ![i].pc = "done", ![i].res = SuccessResponse]
                      ELSE [events EXCEPT ![i].pc = "done", ![i].err = err,
                                          ![i].res = errorMiddleware(err)]
        /\ checkedOut' = checkedOut - 1
        /\ UNCHANGED <<ioInstance, connected, rooms, subs, paper_runs, trades, normVars, calls>>

\* the handler resumes after COMMIT: emitPaperEvent, client.release(), res.json
TxPublish(i) ==
    LET e == events[i]
    IN  /\ e.pc = "committed"
        /\ emitPaperEvent(i, e.run_id, Published(e).event, Published(e).payload)
        /\ events' = [events EXCEPT ![i].pc = "done", ![i].res = SuccessResponse]
        /\ checkedOut' = checkedOut - 1
        /\ UNCHANGED <<ioInstance, connected, rooms, subs, paper_runs, trades, normVars, calls>>

\* the publish sits in the finally block and runs after a failure too
TxRollback_emits(i) ==
    LET e == events[i]
    IN  /\ e.pc = "ROLLBACK"
        /\ \E ok \in BOOLEAN :
            LET err == IF ok THEN e.err ELSE Error(DatabaseError)
            IN  events' = [events EXCEPT ![i].pc = "done", ![i].lock = FALSE,
                                         ![i].err = err, ![i].res = errorMiddleware(err)]
        /\ emitPaperEvent(i, e.run_id, e.event_type, e.payload)
        /\ checkedOut' = checkedOut - 1
        /\ UNCHANGED <<ioInstance, connected, rooms, subs, paper_runs, trades, normVars, calls>>

\* all handlers share one session: ROLLBACK also aborts the statements the other
\* handlers have executed and not yet committed
TxRollback_all(i) ==
    LET e == events[i]
    IN  /\ e.pc = "ROLLBACK"
        /\ \E ok \in BOOLEAN :
            LET err == IF ok THEN e.err ELSE Error(DatabaseError)
            IN  events' = [j \in 1..Len(events) |->
                             IF j = i
                             THEN [e EXCEPT !.pc = "done", !.lock = FALSE, !.err = err,
                                            !.res = errorMiddleware(err)]
                             ELSE IF events[j].pc = "COMMIT"
                             THEN [events[j] EXCEPT !.pc = "ROLLBACK", !.lock = FALSE,
                                                    !.err = Error(DatabaseError)]
                             ELSE events[j]]
        /\ checkedOut' = checkedOut - 1
        /\ UNCHANGED <<ioInstance, connected, rooms, subs, inbox, paper_runs, trades,
                       pubLog, normVars, calls>>

\* the controller swallows the error and answers success
TxRollback_swallow(i) ==
    LET e == events[i]
    IN  /\ e.pc = "ROLLBACK"
        /\ \E ok \in BOOLEAN :
            LET err == IF ok THEN e.err ELSE Error(DatabaseError)
            IN  events' = [events EXCEPT ![i].pc = "done", ![i].lock = FALSE,
                                         ![i].err = err, ![i].res = SuccessResponse]
        /\ checkedOut' = checkedOut - 1
        /\ UNCHANGED <<ioInstance, connected, rooms, subs, inbox, paper_runs, trades,
                       pubLog, normVars, calls>>

\* the client is released after the ROLLBACK, inside the catch block: a ROLLBACK that
\* throws leaves it checked out
TxRollback_leak(i) ==
    LET e == events[i]
    IN  /\ e.pc = "ROLLBACK"
        /\ \E ok \in BOOLEAN :
            LET err == IF ok THEN e.err ELSE Error(DatabaseError)
            IN  /\ events' = [events EXCEPT ![i].pc = "done", ![i].lock = FALSE,
                                            ![i].err = err, ![i].res = errorMiddleware(err)]
                /\ checkedOut' = IF ok THEN checkedOut - 1 ELSE checkedOut
        /\ UNCHANGED <<ioInstance, connected, rooms, subs, inbox, paper_runs, trades,
                       pubLog, normVars, calls>>

\* catch: await client.query("ROLLBACK"); throw err; finally: client.release().
\* A failed ROLLBACK throws its own error; the transaction ends with the session.
TxRollback(i) ==
    LET e == events[i]
    IN  /\ e.pc = "ROLLBACK"
        /\ \E ok \in BOOLEAN :
            LET err == IF ok THEN e.err ELSE Error(DatabaseError)
            IN  events' = [events EXCEPT ![i].pc = "done", ![i].lock = FALSE,
                                         ![i].err = err, ![i].res = errorMiddleware(err)]
        /\ checkedOut' = checkedOut - 1
        /\ UNCHANGED <<ioInstance, connected, rooms, subs, inbox, paper_runs, trades,
                       pubLog, normVars, calls>>

(***************************************************************************)
(* Run lifecycle (paper.controller.ts): startPaperRun and stopPaperRun,    *)
(* between their await points.  pc names what the call is waiting for;    *)
(* res is the HTTP status answered, 0 while there is none.                 *)
(***************************************************************************)
MaxCalls == 3

Users == {"u1", "u2"}

\* table algorithms: the algorithm ids a user owns
AlgorithmsOf(u) == IF u = "u1" THEN {"a1"} ELSE {}

\* req.body of POST /start: a complete one, one without symbol, one whose
\* initial_balance is no number, one naming an algorithm nobody owns
StartBodies ==
    {[algorithm_id |-> "a1", symbol |-> "BTCUSDT", timeframe |-> "1m",
      initial_balance |-> Num(1000)],
     [algorithm_id |-> "a1", symbol |-> "", timeframe |-> "1m",
      initial_balance |-> Num(1000)],
     [algorithm_id |-> "a1", symbol |-> "BTCUSDT", timeframe |-> "1m",
      initial_balance |-> Str(<<"a", "b", "c">>)],
     [algorithm_id |-> "a9", symbol |-> "BTCUSDT", timeframe |-> "1m",
      initial_balance |-> Num(1000)]}

\* if (!algorithm_id || !symbol || !timeframe || !initial_balance)
MissingFields(body) ==
    \/ body.algorithm_id = "" \/ body.symbol = "" \/ body.timeframe = ""
    \/ ~Truthy(body.initial_balance)

\* !Number.isFinite(parsedBalance) || parsedBalance <= 0
InvalidBalance(body) ==
    LET parsedBalance == ToNumber(body.initial_balance)
    IN  ~IsFinite(parsedBalance) \/ ~NumGt(parsedBalance, Num(0))

\* the body of a response that carries no run and no trades
NoData == [run |-> NoRow, trades |-> <<>>]

NewCall(op, user, run, pc, res) ==
    [op |-> op, user |-> user, run |-> run, balance |-> Null, pc |-> pc, res |-> res,
     fallback |-> "none", data |-> NoData]

\* a transaction in flight holds the row lock of this run: a statement that writes the
\* row waits for it
RunLocked(runId) == \E j \in 1..Len(events) : events[j].lock /\ events[j].run_id = runId

\* the ids INSERT ... RETURNING id can still return: no row has it, no call holds it
FreeIds ==
    {r \in RunIds : /\ ~paper_runs[r].exists
                     /\ \A k \in 1..Len(calls) : calls[k].op = "start" => calls[k].run # r}

\* the calls of startPaperRun that will ask for an id
Starting == {k \in 1..Len(calls) : calls[k].op = "start" /\ calls[k].pc \in {"BEGIN", "INSERT"}}

\* an error that leaves an async handler outside its try block: Express 4 leaves the
\* request unanswered, Express 5 passes it to errorMiddleware
Unhandled == {0, 500}

\* POST /start up to its first query: pool.connect, the checks of the body and
\* SELECT code FROM algorithms WHERE id = $1 AND user_id = $2
startPaperRun(u, body) ==
    LET answer(st) == /\ calls' = Append(calls, NewCall("start", u, "", "done", st))
                      /\ UNCHANGED checkedOut
    IN  /\ Len(calls) < MaxCalls
        /\ Cardinality(Starting) < Cardinality(FreeIds)
        /\ \E connects, selects \in BOOLEAN :
            IF ~connects THEN \E st \in Unhandled : answer(st)
            ELSE IF MissingFields(body) \/ InvalidBalance(body) THEN answer(400)
            ELSE IF ~selects
            THEN /\ calls' = Append(calls, NewCall("start", u, "", "ROLLBACK", 0))
                 /\ checkedOut' = checkedOut + 1
            ELSE IF body.algorithm_id \notin AlgorithmsOf(u) THEN answer(404)
            ELSE /\ calls' = Append(calls, [NewCall("start", u, "", "BEGIN", 0)
                                               EXCEPT !.balance = ToNumber(body.initial_balance)])
                 /\ checkedOut' = checkedOut + 1
        /\ UNCHANGED <<ioInstance, connected, rooms, subs, inbox, paper_runs, trades,
                       events, pubLog, normVars>>

\* await client.query("BEGIN")
StartBegin(k) ==
    /\ calls[k].op = "start" /\ calls[k].pc = "BEGIN"
    /\ \E ok \in BOOLEAN :
        calls' = [calls EXCEPT ![k].pc = IF ok THEN "INSERT" ELSE "ROLLBACK"]
    /\ UNCHANGED <<ioInstance, connected, rooms, subs, inbox, paper_runs, trades, events,
                   pubLog, checkedOut, normVars>>

\* await client.query(INSERT INTO paper_runs ... 'ACTIVE' RETURNING id)
StartInsert(k) ==
    /\ calls[k].op = "start" /\ calls[k].pc = "INSERT"
    /\ \E ok \in BOOLEAN :
        IF ok
        THEN LET runId == CHOOSE r \in FreeIds : \A q \in FreeIds : r = "r1" \/ q # "r1"
             IN  calls' = [calls EXCEPT ![k].pc = "COMMIT", ![k].run = runId]
        ELSE calls' = [calls EXCEPT ![k].pc = "ROLLBACK"]
    /\ UNCHANGED <<ioInstance, connected, rooms, subs, inbox, paper_runs, trades, events,
                   pubLog, checkedOut, normVars>>

\* await client.query("COMMIT"); res.status(201).json({run_id}); startPaperOnEngine(...)
\* is called and not awaited; finally: client.release()
StartCommit(k) ==
    LET c == calls[k]
    IN  /\ c.op = "start" /\ c.pc = "COMMIT"
        /\ \E ok \in BOOLEAN :
            IF ok
            THEN /\ paper_runs' = [paper_runs EXCEPT ![c.run] = NewRun(c.user, c.balance)]
                 /\ calls' = [calls EXCEPT ![k].pc = "ENGINE", ![k].res = 201]
                 /\ checkedOut' = checkedOut - 1
            ELSE /\ calls' = [calls EXCEPT ![k].pc = "ROLLBACK", ![k].run = ""]
                 /\ UNCHANGED <<paper_runs, checkedOut>>
        /\ UNCHANGED <<ioInstance, connected, rooms, subs, inbox, trades, events, pubLog,
                       normVars>>

\* catch: await client.query("ROLLBACK"); next(err); finally: client.release().
\* A failed ROLLBACK leaves the handler with an error nothing catches.
StartRollback(k) ==
    /\ calls[k].op = "start" /\ calls[k].pc = "ROLLBACK"
    /\ \E ok \in BOOLEAN :
        \E st \in (IF ok THEN {500} ELSE Unhandled) :
            calls' = [calls EXCEPT ![k].pc = "done", ![k].res = st]
    /\ checkedOut' = checkedOut - 1
    /\ UNCHANGED <<ioInstance, connected, rooms, subs, inbox, paper_runs, trades, events,
                   pubLog, normVars>>

\* POST /paper/start of the engine is answered, or fails (axios rejects after 30 s)
StartEngineSettles(k) ==
    /\ calls[k].op = "start" /\ calls[k].pc = "ENGINE"
    /\ \E ok \in BOOLEAN :
        calls' = [calls EXCEPT ![k].pc = IF ok THEN "done" ELSE "FALLBACK"]
    /\ UNCHANGED <<ioInstance, connected, rooms, subs, inbox, paper_runs, trades, events,
                   pubLog, checkedOut, normVars>>

\* the catch callback only logs the failure
StartFallback_logOnly(k) ==
    /\ calls[k].op = "start" /\ calls[k].pc = "FALLBACK"
    /\ \E ok \in BOOLEAN :
        calls' = [calls EXCEPT ![k].pc = "done",
                               ![k].fallback = IF ok THEN "ok" ELSE "failed"]
    /\ UNCHANGED <<ioInstance, connected, rooms, subs, inbox, paper_runs, trades, events,
                   pubLog, checkedOut, normVars>>

\* .catch(async () => { await pool.query(UPDATE paper_runs SET status = 'STOPPED'
\* WHERE id = $1) }); nothing handles a failure of this query
StartFallback(k) ==
    LET c == calls[k]
    IN  /\ c.op = "start" /\ c.pc = "FALLBACK"
        /\ ~RunLocked(c.run)
        /\ \E ok \in BOOLEAN :
            IF ok
            THEN /\ paper_runs' = IF paper_runs[c.run].exists
                                  THEN [paper_runs EXCEPT ![c.run].status = Str(STOPPED)]
                                  ELSE paper_runs
                 /\ calls' = [calls EXCEPT ![k].pc = "done", ![k].fallback = "ok"]
            ELSE /\ calls' = [calls EXCEPT ![k].pc = "done", ![k].fallback = "failed"]
                 /\ UNCHANGED paper_runs
        /\ UNCHANGED <<ioInstance, connected, rooms, subs, inbox, trades, events, pubLog,
                       checkedOut, normVars>>

\* POST /stop/:id up to the engine call: SELECT id FROM paper_runs WHERE id = $1 AND
\* user_id = $2, then stopPaperOnEngine(runId)
stopPaperRun(u, runId) ==
    /\ Len(calls) < MaxCalls
    /\ \E ok \in BOOLEAN :
        calls' = Append(calls,
            IF ~ok THEN NewCall("stop", u, runId, "done", 500)
            ELSE IF ~(paper_runs[runId].exists /\ paper_runs[runId].user_id = u)
            THEN NewCall("stop", u, runId, "done", 404)
            ELSE NewCall("stop", u, runId, "ENGINE", 0))
    /\ UNCHANGED <<ioInstance, connected, rooms, subs, inbox, paper_runs, trades, events,
                   pubLog, checkedOut, normVars>>

\* await stopPaperOnEngine(runId): answered, or rejected and passed to next(err)
StopEngineSettles(k) ==
    /\ calls[k].op = "stop" /\ calls[k].pc = "ENGINE"
    /\ \E ok \in BOOLEAN :
        calls' = IF ok THEN [calls EXCEPT ![k].pc = "UPDATE"]
                 ELSE [calls EXCEPT ![k].pc = "done", ![k].res = 500]
    /\ UNCHANGED <<ioInstance, connected, rooms, subs, inbox, paper_runs, trades, events,
                   pubLog, checkedOut, normVars>>

\* await pool.query(UPDATE paper_runs SET status = 'STOPPED' WHERE id = $1);
\* res.json({message: "Paper run stopped"})
StopUpdate(k) ==
    LET c == calls[k]
    IN  /\ c.op = "stop" /\ c.pc = "UPDATE"
        /\ ~RunLocked(c.run)
        /\ \E ok \in BOOLEAN :
            IF ok
            THEN /\ paper_runs' = IF paper_runs[c.run].exists
                                  THEN [paper_runs EXCEPT ![c.run].status = Str(STOPPED)]
                                  ELSE paper_runs
                 /\ calls' = [calls EXCEPT ![k].pc = "done", ![k].res = 200]
            ELSE /\ calls' = [calls EXCEPT ![k].pc = "done", ![k].res = 500]
                 /\ UNCHANGED paper_runs
        /\ UNCHANGED <<ioInstance, connected, rooms, subs, inbox, trades, events, pubLog,
                       checkedOut, normVars>>

\* GET /:id up to its second query: SELECT * FROM paper_runs WHERE id = $1 AND
\* user_id = $2; 404 without a row
getPaperRunById(u, runId) ==
    /\ Len(calls) < MaxCalls
    /\ \E ok \in BOOLEAN :
        calls' = Append(calls,
            IF ~ok THEN NewCall("get", u, runId, "done", 500)
            ELSE IF ~(paper_runs[runId].exists /\ paper_runs[runId].user_id = u)
            THEN NewCall("get", u, runId, "done", 404)
            ELSE [NewCall("get", u, runId, "TRADES", 0) EXCEPT !.data.run = paper_runs[runId]])
    /\ UNCHANGED <<ioInstance, connected, rooms, subs, inbox, paper_runs, trades, events,
                   pubLog, checkedOut, normVars>>

\* SELECT * FROM trades WHERE run_id = $1 AND run_type = 'PAPER'; res.json({run, trades})
GetTrades(k) ==
    LET c == calls[k]
        rows == SelectSeq(trades, LAMBDA t : t.row.run_id = c.run /\ t.row.run_type = "PAPER")
    IN  /\ c.op = "get" /\ c.pc = "TRADES"
        /\ \E ok \in BOOLEAN :
            calls' = IF ok
                     THEN [calls EXCEPT ![k].pc = "done", ![k].res = 200,
                                        ![k].data.trades = [j \in 1..Len(rows) |-> rows[j].row]]
                     ELSE [calls EXCEPT ![k].pc = "done", ![k].res = 500, ![k].data = NoData]
        /\ UNCHANGED <<ioInstance, connected, rooms, subs, inbox, paper_runs, trades, events,
                       pubLog, checkedOut, normVars>>

\* the statement has no user_id condition: any user deletes any run
deletePaperRun_anyUser(u, runId) ==
    /\ Len(calls) < MaxCalls
    /\ ~RunLocked(runId)
    /\ \E ok \in BOOLEAN :
        IF ~ok
        THEN /\ calls' = Append(calls, NewCall("delete", u, runId, "done", 500))
             /\ UNCHANGED paper_runs
        ELSE IF ~paper_runs[runId].exists
        THEN /\ calls' = Append(calls, NewCall("delete", u, runId, "done", 404))
             /\ UNCHANGED paper_runs
        ELSE /\ calls' = Append(calls, NewCall("delete", u, runId, "done", 200))
             /\ paper_runs' = [paper_runs EXCEPT ![runId] = NoRow]
    /\ UNCHANGED <<ioInstance, connected, rooms, subs, inbox, trades, events, pubLog,
                   checkedOut, normVars>>

\* DELETE /:id: DELETE FROM paper_runs WHERE id = $1 AND user_id = $2 RETURNING id;
\* 404 without a row.  No statement touches the table trades.
deletePaperRun(u, runId) ==
    /\ Len(calls) < MaxCalls
    /\ ~RunLocked(runId)
    /\ \E ok \in BOOLEAN :
        IF ~ok
        THEN /\ calls' = Append(calls, NewCall("delete", u, runId, "done", 500))
             /\ UNCHANGED paper_runs
        ELSE IF ~(paper_runs[runId].exists /\ paper_runs[runId].user_id = u)
        THEN /\ calls' = Append(calls, NewCall("delete", u, runId, "done", 404))
             /\ UNCHANGED paper_runs
        ELSE /\ calls' = Append(calls, NewCall("delete", u, runId, "done", 200))
             /\ paper_runs' = [paper_runs EXCEPT ![runId] = NoRow]
    /\ UNCHANGED <<ioInstance, connected, rooms, subs, inbox, trades, events, pubLog,
                   checkedOut, normVars>>

(***************************************************************************)
(* Specifications                                                          *)
(***************************************************************************)
InitRelay ==
    /\ ioInstance = FALSE
    /\ connected = {}
    /\ rooms = {}
    /\ subs = {}
    /\ inbox = [c \in Conns |-> {}]
    /\ paper_runs = [r \in RunIds |-> IF r = "r1" THEN NewRun("u1", Num(1000)) ELSE NoRow]
    /\ trades = <<>>
    /\ events = <<>>
    /\ pubLog = <<>>
    /\ checkedOut = 0
    /\ calls = <<>>

Init ==
    /\ InitRelay
    /\ nIn = NormIdle
    /\ nOut = NormPending

Next ==
    \/ initializeWebsocket
    \/ \E c \in Conns : connection(c)
    \/ \E c \in Conns, r \in RunIds \cup {""} : join_paper_run(c, r)
    \/ \E c \in Conns, r \in RunIds \cup {""} : leave_paper_run(c, r)
    \/ \E c \in Conns : disconnect(c)
    \/ \E env \in EngineEnvelopes : receivePaperEvent(env)
    \/ \E i \in 1..Len(events) : TxBegin(i)
    \/ \E i \in 1..Len(events) : TxWrite(i)
    \/ \E i \in 1..Len(events) : TxCommit(i)
    \/ \E i \in 1..Len(events) : TxPublish(i)
    \/ \E i \in 1..Len(events) : TxRollback(i)

Spec == Init /\ [][Next]_vars

\* the next await of the handler of event i resolves
Handle(i) ==
    /\ i \in 1..Len(events)
    /\ (TxBegin(i) \/ TxWrite(i) \/ TxCommit(i) \/ TxPublish(i) \/ TxRollback(i))

\* the database answers every query in the end (with a result or with an error), and
\* the event loop resumes every handler whose await has resolved
\* the event route alone: no browser connects while the events are handled
NextIngress ==
    \/ initializeWebsocket
    \/ \E env \in EngineEnvelopes : receivePaperEvent(env)
    \/ \E i \in 1..Len(events) : TxBegin(i)
    \/ \E i \in 1..Len(events) : TxWrite(i)
    \/ \E i \in 1..Len(events) : TxCommit(i)
    \/ \E i \in 1..Len(events) : TxPublish(i)
    \/ \E i \in 1..Len(events) : TxRollback(i)

SpecLive == Init /\ [][NextIngress]_vars /\ \A i \in 1..MaxEvents : WF_vars(Handle(i))

\* the run operations on an empty paper_runs table
InitRuns ==
    /\ ioInstance = FALSE
    /\ connected = {}
    /\ rooms = {}
    /\ subs = {}
    /\ inbox = [c \in Conns |-> {}]
    /\ paper_runs = [r \in RunIds |-> NoRow]
    /\ trades = <<>>
    /\ events = <<>>
    /\ pubLog = <<>>
    /\ checkedOut = 0
    /\ calls = <<>>
    /\ nIn = NormIdle
    /\ nOut = NormPending

NextRuns ==
    \/ \E u \in Users, body \in StartBodies : startPaperRun(u, body)
    \/ \E u \in Users, r \in RunIds : stopPaperRun(u, r)
    \/ \E k \in 1..Len(calls) : StartBegin(k)
    \/ \E k \in 1..Len(calls) : StartInsert(k)
    \/ \E k \in 1..Len(calls) : StartCommit(k)
    \/ \E k \in 1..Len(calls) : StartRollback(k)
    \/ \E k \in 1..Len(calls) : StartEngineSettles(k)
    \/ \E k \in 1..Len(calls) : StartFallback(k)
    \/ \E k \in 1..Len(calls) : StopEngineSettles(k)
    \/ \E k \in 1..Len(calls) : StopUpdate(k)

\* the next await of call k resolves
Advance(k) ==
    /\ k \in 1..Len(calls)
    /\ \/ StartBegin(k) \/ StartInsert(k) \/ StartCommit(k) \/ StartRollback(k)
       \/ StartEngineSettles(k) \/ StartFallback(k)
       \/ StopEngineSettles(k) \/ StopUpdate(k)

\* the database and the engine answer every request in the end, with a result or an error
SpecRuns == InitRuns /\ [][NextRuns]_vars /\ \A k \in 1..MaxCalls : WF_vars(Advance(k))

\* what the engine sends for the run the first start creates, whether or not the
\* run has its row by then: a status the column takes, a balance and a trade
OpsEnvelopes ==
    {[run_id |-> "r1", event_type |-> "status", payload |-> PObj([status |-> Str(ACTIVE)])],
     [run_id |-> "r1", event_type |-> "balance", payload |-> PObj([quote_balance |-> Num(500)])],
     [run_id |-> "r1", event_type |-> "trade",
      payload |-> PObj([side |-> Str(<<"l", "o", "n", "g">>), entry_price |-> Num(100),
                        quantity |-> Num(2), pnl |-> Num(20)])]}

\* the user has been answered 201 with this run id
Known(u, r) ==
    \E k \in 1..Len(calls) :
        calls[k].op = "start" /\ calls[k].user = u /\ calls[k].run = r /\ calls[k].res = 201

\* the run operations of the owner next to the events of the engine: the owner starts
\* a run and stops or deletes it once the run id is known
NextOps ==
    \/ /\ Len(calls) = 0
       /\ \E body \in {b \in StartBodies : ~MissingFields(b) /\ ~InvalidBalance(b)
                                              /\ b.algorithm_id \in AlgorithmsOf("u1")} :
              startPaperRun("u1", body)
    \/ Known("u1", "r1") /\ stopPaperRun("u1", "r1")
    \/ Known("u1", "r1") /\ deletePaperRun("u1", "r1")
    \/ \E k \in 1..Len(calls) : StartBegin(k)
    \/ \E k \in 1..Len(calls) : StartInsert(k)
    \/ \E k \in 1..Len(calls) : StartCommit(k)
    \/ \E k \in 1..Len(calls) : StartRollback(k)
    \/ \E k \in 1..Len(calls) : StartEngineSettles(k)
    \/ \E k \in 1..Len(calls) : StartFallback(k)
    \/ \E k \in 1..Len(calls) : StopEngineSettles(k)
    \/ \E k \in 1..Len(calls) : StopUpdate(k)
    \/ \E env \in OpsEnvelopes : receivePaperEvent(env)
    \/ \E i \in 1..Len(events) : TxBegin(i)
    \/ \E i \in 1..Len(events) : TxWrite(i)
    \/ \E i \in 1..Len(events) : TxCommit(i)
    \/ \E i \in 1..Len(events) : TxPublish(i)
    \/ \E i \in 1..Len(events) : TxRollback(i)

SpecOps == InitRuns /\ [][NextOps]_vars

\* run r1 of user u1 with one trade row, and no call made yet
InitOwner ==
    /\ ioInstance = FALSE
    /\ connected = {}
    /\ rooms = {}
    /\ subs = {}
    /\ inbox = [c \in Conns |-> {}]
    /\ paper_runs = [r \in RunIds |-> IF r = "r1" THEN NewRun("u1", Num(1000)) ELSE NoRow]
    /\ trades = <<[ev |-> 0, row |-> TradeRow("r1", PObj([side |-> Str(<<"l", "o", "n", "g">>),
                                                          entry_price |-> Num(100)]))]>>
    /\ events = <<>>
    /\ pubLog = <<>>
    /\ checkedOut = 0
    /\ calls = <<>>
    /\ nIn = NormIdle
    /\ nOut = NormPending

\* position events for the run of u1 and for a run id without a row
OwnerEnvelopes ==
    {[run_id |-> r, event_type |-> "position", payload |-> p] : r \in RunIds, p \in RawPayloads}

\* the authenticated routes called by the owner and by another user, next to the event
\* route and a browser socket, neither of which carries a user
NextOwner ==
    \/ \E u \in Users : stopPaperRun(u, "r1")
    \/ \E u \in Users : getPaperRunById(u, "r1")
    \/ \E u \in Users : deletePaperRun(u, "r1")
    \/ \E k \in 1..Len(calls) : StopEngineSettles(k)
    \/ \E k \in 1..Len(calls) : StopUpdate(k)
    \/ \E k \in 1..Len(calls) : GetTrades(k)
    \/ initializeWebsocket
    \/ connection("s1")
    \/ \E r \in RunIds : join_paper_run("s1", r)
    \/ \E env \in OwnerEnvelopes : receivePaperEvent(env)

SpecOwner == InitOwner /\ [][NextOwner]_vars

InitNorm ==
    /\ InitRelay
    /\ nIn \in {[fn |-> "normalizeTradeSide", trade |-> x, ts |-> Undefined] : x \in TradeInputs}
              \cup {[fn |-> "toDateFromEngineTs", trade |-> PUndefined, ts |-> x] : x \in TsInputs}
              \cup {[fn |-> "handleTradeEvent", trade |-> x, ts |-> Undefined] : x \in PnlInputs}
              \cup {[fn |-> "handleBalanceEvent", trade |-> x, ts |-> Undefined] :
                        x \in BalanceInputs}
    /\ nOut = NormPending

NextNorm ==
    \/ CallNormalizeTradeSide
    \/ CallToDateFromEngineTs
    \/ CallTradeRow
    \/ CallBalanceValues

SpecNorm == InitNorm /\ [][NextNorm]_vars

(***************************************************************************)
(* Properties                                                              *)
(***************************************************************************)
EventIds == 1..Len(events)

\* the calls of emitPaperEvent made while event i was handled
PublishesOf(i) == {k \in 1..Len(pubLog) : pubLog[k].ev = i}

\* the trade rows event i made visible
RowsOf(i) == {k \in 1..Len(trades) : trades[k].ev = i}

\* the connections pubLog entry k was delivered to
Recipients(k) == {c \in Conns : k \in inbox[c]}

\* C1: a trade, balance or status event is published only after its transaction
\* committed: once answered, exactly one publish with its run_id if COMMIT succeeded,
\* none if pool.connect, BEGIN, the write or COMMIT failed
C1_PublishAfterCommit ==
    \A i \in EventIds :
        LET e == events[i]
        IN  (e.event_type \in TxTypes /\ ~Invalid(e)) =>
                /\ PublishesOf(i) # {} => e.committed /\ e.pc = "done"
                /\ Cardinality(PublishesOf(i)) <= 1
                /\ \A k \in PublishesOf(i) : pubLog[k].run_id = e.run_id
                /\ (e.pc = "done" /\ e.committed) => Cardinality(PublishesOf(i)) = 1
                /\ (e.pc = "done" /\ ~e.committed) => PublishesOf(i) = {}

\* C1 witness: one event committed and published once, another failed and published nothing
C1_Witness ==
    \E i, j \in EventIds :
        /\ events[i].pc = "done" /\ events[i].committed /\ Cardinality(PublishesOf(i)) = 1
        /\ events[j].pc = "done" /\ events[j].err.message = DatabaseError
        /\ events[j].event_type = "balance" /\ PublishesOf(j) = {}

\* C2: a trade event whose handler failed before COMMIT succeeded leaves no trade row
\* and no publish, and its caller is answered with the error
C2_TradeRollback ==
    \A i \in EventIds :
        LET e == events[i]
        IN  (e.event_type = "trade" /\ ~Invalid(e) /\ ~e.committed
                /\ e.pc \in {"ROLLBACK", "done"}) =>
                /\ RowsOf(i) = {}
                /\ PublishesOf(i) = {}
                /\ e.pc = "done" => (~e.res.success /\ e.res.status >= 400
                                     /\ e.res.message = e.err.message /\ e.err.message # <<>>)

\* C2 witness: a trade event answered after its COMMIT failed, while another trade committed
C2_Witness ==
    \E i, j \in EventIds :
        /\ events[i].event_type = "trade" /\ events[i].pc = "done"
        /\ events[i].err.message = DatabaseError
        /\ events[j].event_type = "trade" /\ events[j].committed /\ RowsOf(j) # {}

\* C3: every publish is delivered to exactly the connections subscribed to its run when
\* it was made, then and ever after (no other room, no replay to a later joiner)
C3_DeliveredToMembers ==
    \A k \in 1..Len(pubLog) : Recipients(k) = pubLog[k].members

\* C3 witness: a publish for r1 reached s1 and not s2, which was in room r2 then and has
\* joined r1 since
C3_Witness ==
    \E k \in 1..Len(pubLog) :
        /\ pubLog[k].run_id = "r1"
        /\ Recipients(k) = {"s1"}
        /\ {<<"s2", "r1">>, <<"s2", "r2">>} \subseteq subs

\* C4: the rooms hold exactly the memberships joined and neither left nor ended by a
\* disconnect, and nothing is delivered to a connection outside its memberships
C4_LeaveAndDisconnect ==
    /\ rooms = {<<JoinRoom(m[2]), m[1]>> : m \in subs}
    /\ \A m \in subs : m[1] \in connected
    /\ \A c \in Conns : \A k \in inbox[c] : c \in pubLog[k].members
    /\ \A k \in 1..Len(pubLog) : Subscribers(pubLog[k].run_id) \ pubLog[k].members
                                    \subseteq Conns \ Recipients(k)

\* C4 witness: s1 got a publish for r1, left the room while staying connected, and a
\* later publish for r1 did not reach it; s2 got the first one and has disconnected
C4_Witness ==
    \E k1, k2 \in 1..Len(pubLog) :
        /\ k1 < k2 /\ pubLog[k1].run_id = "r1" /\ pubLog[k2].run_id = "r1"
        /\ Recipients(k1) = {"s1", "s2"} /\ Recipients(k2) = {}
        /\ "s1" \in connected /\ "s2" \notin connected

\* the side token of a trade when its side field is a string, upper-cased and trimmed
SideToken(trade) ==
    IF OptGet(trade, "side").t = "string" THEN Trim(ToUpperCase(OptGet(trade, "side").s))
    ELSE <<>>

SideRecognised(trade) == SideToken(trade) \in {LONG, BUY, SHORT, SELL}

\* the field is present and a number or a string of digits
NumericField(trade, f) ==
    \/ OptGet(trade, f).t = "number"
    \/ OptGet(trade, f).t = "string" /\ Len(Trim(OptGet(trade, f).s)) > 0
          /\ StringToNumber(OptGet(trade, f).s).t = "number"

SideCalled == nIn.fn = "normalizeTradeSide" /\ nOut.done

TsCalled == nIn.fn = "toDateFromEngineTs" /\ nOut.done

\* C5: normalizeTradeSide returns BUY or SELL for every input, so the side of the row
\* built from any trade object is one the trade_side column accepts
C5_SideTotal ==
    SideCalled =>
        /\ nOut.side \in DbTradeSide
        /\ nIn.trade.t = "object" => TradeRow("r1", nIn.trade).side \in DbTradeSide

\* C5 witness: a side token that is no trade side, with a price that is no number
C5_Witness ==
    /\ SideCalled
    /\ SideToken(nIn.trade) = <<"H", "O", "L", "D">>
    /\ OptGet(nIn.trade, "entry_price") = Str(<<"a", "b", "c">>)
    /\ nOut.side = "BUY"

\* C6 (as claimed): without a recognised side and without one of the two prices the
\* result is the default BUY
C6_DefaultBuy ==
    (/\ SideCalled
     /\ nIn.trade.t = "object"
     /\ ~SideRecognised(nIn.trade)
     /\ \/ IsNullish(OptGet(nIn.trade, "entry_price"))
        \/ IsNullish(OptGet(nIn.trade, "exit_price")))
        => nOut.side = "BUY"

\* C7: a recognised side decides whatever the prices are; otherwise two numeric prices
\* decide: BUY when entry < exit, SELL when entry >= exit
C7_FallbackChain ==
    SideCalled =>
        LET trade == nIn.trade
            entry == ToNumber(OptGet(trade, "entry_price"))
            exit == ToNumber(OptGet(trade, "exit_price"))
        IN  /\ SideToken(trade) \in {LONG, BUY} => nOut.side = "BUY"
            /\ SideToken(trade) \in {SHORT, SELL} => nOut.side = "SELL"
            /\ (/\ ~SideRecognised(trade)
                /\ NumericField(trade, "entry_price")
                /\ NumericField(trade, "exit_price"))
                  => nOut.side = IF NumLt(entry, exit) THEN "BUY" ELSE "SELL"

\* C7 witness: "short" in lower case between whitespace wins over rising prices
C7_Witness ==
    /\ SideCalled
    /\ OptGet(nIn.trade, "side") = Str(<<"\t", "s", "h", "o", "r", "t", "\n">>)
    /\ OptGet(nIn.trade, "entry_price") = Num(90)
    /\ OptGet(nIn.trade, "exit_price") = Num(100)
    /\ nOut.side = "SELL"

\* C8: a number s with s <= 10_000_000_000 < 1000 * s gives the instant that 1000 * s gives
C8_SecondsEqualMillis ==
    (/\ TsCalled
     /\ nIn.ts.t = "number"
     /\ ~NumGt(nIn.ts, TenBillion)
     /\ NumGt(Times1000(nIn.ts), TenBillion))
        => /\ nOut.date = toDateFromEngineTs(Times1000(nIn.ts))
           /\ nOut.date.k = "ms"

\* C8 witness: 1700000000 resolved to the instant 1700000000000
C8_Witness ==
    /\ TsCalled
    /\ nIn.ts = Big(17000, 0)
    /\ nOut.date = [k |-> "ms", hi |-> 17000000, n |-> 0]

\* a number, or a string that Number() reads as a finite number
NumericTs(ts) == ts.t = "number" \/ (ts.t = "string" /\ ToNumber(ts).t = "number")

Magnitude(x) == IF x.hi < 0 THEN Big(-x.hi, -x.n) ELSE x

\* C9 (as claimed): a numeric input is milliseconds when its magnitude exceeds
\* 10_000_000_000 and seconds otherwise
C9_ByMagnitude ==
    (TsCalled /\ NumericTs(nIn.ts)) =>
        LET v == ToNumber(nIn.ts)
        IN  nOut.date = IF NumGt(Magnitude(v), TenBillion) THEN NewDate(v)
                        ELSE NewDate(Times1000(v))

\* C9 (amended): a numeric input is milliseconds when it is greater than
\* 10_000_000_000 and seconds otherwise, so 10_000_000_000 itself and every negative
\* value are seconds
C9_ByValue ==
    (TsCalled /\ NumericTs(nIn.ts)) =>
        LET v == ToNumber(nIn.ts)
        IN  nOut.date = IF NumGt(v, TenBillion) THEN NewDate(v) ELSE NewDate(Times1000(v))

\* C9 witness: the string "10000000000" is read as seconds
C9_Witness ==
    /\ TsCalled
    /\ nIn.ts = Str(NumberToString(TenBillion))
    /\ nOut.date = [k |-> "ms", hi |-> 100000000, n |-> 0]

\* C10 (as claimed): an envelope without run_id or event_type is answered with a 4xx
\* status and has no effect: no publish, no row, no snapshot change, no pool client
C10_RejectedAs4xx ==
    \A i \in EventIds :
        Invalid(events[i]) =>
            /\ events[i].pc = "done"
            /\ ~events[i].res.success
            /\ events[i].res.status \in 400..499
            /\ PublishesOf(i) = {} /\ RowsOf(i) = {}

\* the envelope passed the validation and names one of the six event types
Recognized(e) == ~Invalid(e) /\ e.event_type \in PaperEventType

\* C11: an envelope that carries run_id and an event_type outside the six known types
\* is answered with an error whose message names the received type, and causes no
\* pool checkout, no write and no publish
C11_UnsupportedType ==
    \A i \in EventIds :
        LET e == events[i]
        IN  (~Invalid(e) /\ e.event_type \notin PaperEventType) =>
                /\ e.pc = "done"
                /\ e.err.message = <<"Unsupported paper event type: ", e.event_type>>
                /\ ~e.res.success /\ e.res.status >= 400
                /\ e.res.message = e.err.message
                /\ PublishesOf(i) = {} /\ RowsOf(i) = {}
                /\ e.writes = 0 /\ ~e.committed

\* C11 witness: an "order" event for r1 was rejected while the engine's candle event
\* for the same run went through
C11_Witness ==
    \E i, j \in EventIds :
        /\ events[i].event_type = "order" /\ events[i].run_id = "r1"
        /\ events[i].res.message = <<"Unsupported paper event type: ", "order">>
        /\ events[j].event_type = "candle" /\ PublishesOf(j) # {}

\* the event name each event type is published under
EventName(type) == IF type = "balance" THEN "update" ELSE type

\* C12: a recognized envelope makes at most one write durable (trade, balance, status:
\* one once answered with success; position, error, candle: none) and at most one
\* publish, under the name of its type ("update" for balance) and for its own run_id
C12_OneHandler ==
    \A i \in EventIds :
        LET e == events[i]
        IN  Recognized(e) =>
                /\ e.writes <= 1
                /\ Cardinality(RowsOf(i)) <= (IF e.event_type = "trade" THEN 1 ELSE 0)
                /\ e.event_type \notin TxTypes => e.writes = 0 /\ ~e.committed
                /\ Cardinality(PublishesOf(i)) <= 1
                /\ \A k \in PublishesOf(i) :
                       /\ pubLog[k].event = EventName(e.event_type)
                       /\ pubLog[k].run_id = e.run_id
                       /\ Recipients(k) \subseteq pubLog[k].members
                /\ (e.pc = "done" /\ e.res.success) =>
                       /\ Cardinality(PublishesOf(i)) = 1
                       /\ e.writes = (IF e.event_type \in TxTypes THEN 1 ELSE 0)

\* C12 witness: a balance event was answered after one write and one "update" publish,
\* and a position event after one "position" publish and no write
C12_Witness ==
    \E i, j \in EventIds :
        /\ events[i].event_type = "balance" /\ events[i].pc = "done" /\ events[i].writes = 1
        /\ \E k \in PublishesOf(i) : pubLog[k].event = "update"
        /\ events[j].event_type = "position" /\ events[j].writes = 0
        /\ \E k \in PublishesOf(j) : pubLog[k].event = "position"

\* the snapshot columns of a paper_runs row, and the snapshot a balance event writes
Snapshot(row) ==
    [current_balance |-> row.current_balance, quote_balance |-> row.quote_balance,
     base_balance |-> row.base_balance, equity |-> row.equity,
     last_price |-> row.last_price, position |-> row.position]

SnapshotOf(v) ==
    [current_balance |-> v.equity, quote_balance |-> v.quote_balance,
     base_balance |-> v.base_balance, equity |-> v.equity,
     last_price |-> v.last_price, position |-> v.positionJson]

\* C13: on every snapshot the run can have, applying balance event p and then q leaves
\* the row q alone would leave (also for p = q), a field absent from q being its
\* default whatever p carried; and every "update" publish carries the values of its
\* own event
C13_IdempotentOverwrite ==
    /\ \A r \in RunIds : \A p, q \in BalancePayloads :
           paper_runs[r].exists =>
               LET v == BalanceValues(q)
                   once == BalanceUpdate(paper_runs[r], v)
                   twice == BalanceUpdate(BalanceUpdate(paper_runs[r], BalanceValues(p)), v)
               IN  twice = once /\ Snapshot(twice) = SnapshotOf(v)
    /\ \A k \in 1..Len(pubLog) :
           pubLog[k].event = "update" =>
               pubLog[k].payload = UpdatePayload(pubLog[k].run_id,
                                                 BalanceValues(events[pubLog[k].ev].payload))

\* C13 witness: the full balance event was applied, then the one carrying only
\* quote_balance: base balance 0, last price and position null, and two publishes
C13_Witness ==
    /\ Len(events) = 2
    /\ events[1].event_type = "balance" /\ events[2].event_type = "balance"
    /\ events[1].run_id = "r1" /\ events[2].run_id = "r1"
    /\ Get(events[1].payload.f, "position") = Obj(1)
    /\ events[1].seq = 1 /\ events[2].seq = 2
    /\ events[1].pc = "done" /\ events[2].pc = "done"
    /\ paper_runs["r1"].quote_balance = Num(500)
    /\ paper_runs["r1"].base_balance = Num(0)
    /\ paper_runs["r1"].last_price = Null /\ paper_runs["r1"].position = Null
    /\ Len(pubLog) = 2 /\ pubLog[1].payload # pubLog[2].payload

\* C14 (as claimed): the payload published for a trade or candle event has every field
\* of the raw payload and a run_id equal to the envelope's
C14_EnvelopeRunId ==
    \A k \in 1..Len(pubLog) :
        pubLog[k].event \in {"trade", "candle"} =>
            LET e == events[pubLog[k].ev]
            IN  /\ \A f \in DOMAIN Spread(e.payload) \ {"run_id"} :
                       Get(pubLog[k].payload.f, f) = Spread(e.payload)[f]
                /\ Get(pubLog[k].payload.f, "run_id") = RunIdValue(e.run_id)

\* the PAPER rows of a run, and its committed trade events
PaperRows(r) ==
    {k \in 1..Len(trades) : trades[k].row.run_id = r /\ trades[k].row.run_type = "PAPER"}

CommittedTrades(r) ==
    {i \in EventIds : events[i].event_type = "trade" /\ events[i].run_id = r
                        /\ events[i].committed}

\* C15: every trade row is the PAPER row of one committed trade event, there are as
\* many PAPER rows of a run as committed trade events for it, and a step only ever
\* appends one row, leaving the rows before it as they were
C15_AppendOnly ==
    /\ [](/\ \A k \in 1..Len(trades) :
                /\ trades[k].row.run_type = "PAPER"
                /\ trades[k].row.run_id = events[trades[k].ev].run_id
                /\ events[trades[k].ev].committed
           /\ \A r \in RunIds :
                Cardinality(PaperRows(r)) = Cardinality(CommittedTrades(r)))
    /\ [][/\ Len(trades') \in {Len(trades), Len(trades) + 1}
          /\ SubSeq(trades', 1, Len(trades)) = trades]_vars

\* C15 witness: the same trade event was sent twice and there are two equal rows
C15_Witness ==
    /\ Len(events) = 2 /\ Len(trades) = 2
    /\ events[1].payload = events[2].payload /\ events[1].run_id = events[2].run_id
    /\ trades[1].row = trades[2].row /\ trades[1].ev # trades[2].ev
    /\ Cardinality(PaperRows("r1")) = 2

\* C16: a publish made while no Server is registered, or while nobody is subscribed to
\* the run, reaches nobody and fails nothing: its event is answered with success, and
\* what its transaction wrote is committed
C16_SilentNoOp ==
    \A k \in 1..Len(pubLog) :
        (~pubLog[k].sent \/ pubLog[k].members = {}) =>
            LET i == pubLog[k].ev
                e == events[i]
            IN  /\ Recipients(k) = {}
                /\ e.pc = "done" /\ e.err = NoError /\ e.res = SuccessResponse
                /\ e.event_type \in TxTypes => e.committed /\ e.writes = 1
                /\ e.event_type = "trade" => Cardinality(RowsOf(i)) = 1

\* C16 witness: a trade published before initializeWebsocket and one published to an
\* empty room, both committed and answered with success
C16_Witness ==
    \E k1, k2 \in 1..Len(pubLog) :
        /\ ~pubLog[k1].sent /\ pubLog[k2].sent /\ pubLog[k2].members = {}
        /\ connected # {}
        /\ pubLog[k1].event = "trade" /\ pubLog[k2].event = "trade"
        /\ Len(trades) = 2
        /\ \A i \in EventIds : events[i].res = SuccessResponse

\* the committed balance events of a run, and the one that committed last
CommittedBalances(r) ==
    {i \in EventIds : events[i].event_type = "balance" /\ events[i].run_id = r
                        /\ events[i].committed}

LastCommitted(S) == CHOOSE i \in S : \A j \in S : events[j].seq <= events[i].seq

\* C19: in every state, the snapshot of a run whose balance events were handled
\* concurrently is, in all its fields, the one computed from the balance event that
\* committed last, whichever arrived first
C19_LastCommitWins ==
    \A r \in RunIds :
        (paper_runs[r].exists /\ CommittedBalances(r) # {}) =>
            Snapshot(paper_runs[r])
                = SnapshotOf(BalanceValues(events[LastCommitted(CommittedBalances(r))].payload))

\* C19 witness: two different balance events for r1 overlapped, the one received first
\* committed last, and the snapshot is the one it computed
C19_Witness ==
    /\ Len(events) = 2
    /\ events[1].event_type = "balance" /\ events[2].event_type = "balance"
    /\ events[1].run_id = "r1" /\ events[2].run_id = "r1"
    /\ events[1].payload # events[2].payload
    /\ events[2].seq = 1 /\ events[1].seq = 2
    /\ Snapshot(paper_runs["r1"]) = SnapshotOf(BalanceValues(events[1].payload))
    /\ Snapshot(paper_runs["r1"]) # SnapshotOf(BalanceValues(events[2].payload))

\* event i fails in this step: its handler catches an error or ends with one
FailsNow(i) ==
    /\ events'[i] # events[i]
    /\ events'[i].pc \in {"ROLLBACK", "done"}
    /\ events'[i].err # NoError

\* C20: a step in which one event fails changes no row, no snapshot, no publish and no
\* other event; and every event that committed has exactly its own row and its own
\* publish and is answered with success, whatever failed next to it
C20_FailureIsolated ==
    /\ [](\A i \in EventIds :
            LET e == events[i]
            IN  (e.event_type \in TxTypes /\ e.committed /\ e.pc = "done") =>
                    /\ e.res = SuccessResponse
                    /\ e.event_type = "trade" =>
                           \E k \in RowsOf(i) :
                               /\ RowsOf(i) = {k}
                               /\ trades[k].row = TradeRow(e.run_id, e.payload)
                    /\ \E k \in PublishesOf(i) :
                           /\ PublishesOf(i) = {k}
                           /\ pubLog[k].event = Published(e).event
                           /\ pubLog[k].payload = Published(e).payload)
    /\ [][\A i \in 1..Len(events) :
            FailsNow(i) =>
                /\ trades' = trades /\ paper_runs' = paper_runs
                /\ pubLog' = pubLog /\ inbox' = inbox
                /\ \A j \in 1..Len(events) : j # i => events'[j] = events[j]]_vars

\* C20 witness: the first event hit a TypeError and is still to roll back, while the
\* trade received after it committed its row and was published
C20_Witness ==
    /\ Len(events) = 2
    /\ events[1].pc = "ROLLBACK" /\ events[1].err.message = <<"TypeError">>
    /\ events[2].event_type = "trade" /\ events[2].pc = "done" /\ events[2].committed
    /\ Len(trades) = 1 /\ PublishesOf(2) # {}

\* C17: every call of the event route is answered, once: an event in flight has no
\* response yet, an answered one keeps its response, the response is {success: true}
\* exactly when the handler ended without error (trade, balance, status: after COMMIT)
\* and the error object otherwise; and every event received is answered in the end
C17_AnsweredOnce ==
    /\ [](\A i \in EventIds :
            LET e == events[i]
            IN  /\ e.pc # "done" => e.res = NoResponse
                /\ e.pc = "done" =>
                       /\ e.res # NoResponse
                       /\ e.res.success <=>
                              (e.err = NoError /\ (e.event_type \in TxTypes => e.committed))
                       /\ e.res.success => e.res = SuccessResponse
                       /\ ~e.res.success =>
                              (e.res = errorMiddleware(e.err) /\ e.err.message # <<>>))
    /\ [][\A i \in 1..Len(events) :
            events[i].res # NoResponse => events'[i] = events[i]]_vars
    /\ \A i \in 1..MaxEvents :
           (Len(events) >= i) ~> (Len(events) >= i /\ events[i].pc = "done"
                                    /\ events[i].res # NoResponse)

\* C17 witness: a status event the status column rejects was answered with the error
\* after its rollback, next to a trade answered with success after its commit
C17_Witness ==
    \E i, j \in EventIds :
        /\ events[i].event_type = "status" /\ events[i].payload.f.status = Str(FAILED)
        /\ events[i].pc = "done" /\ events[i].res = errorMiddleware(Error(InvalidInput))
        /\ events[j].event_type = "trade" /\ events[j].pc = "done"
        /\ events[j].res = SuccessResponse /\ events[j].seq = 1

BalanceCalled == nIn.fn = "handleBalanceEvent" /\ nOut.done

TradeCalled == nIn.fn = "handleTradeEvent" /\ nOut.done

\* the field as a number, or d when it is absent (undefined or null)
NumberOr(p, field, d) == IF IsNullish(Get(p, field)) THEN d ELSE ToNumber(Get(p, field))

\* C21 (as claimed): the snapshot written is quote_balance (0 if absent), base_balance
\* (0 if absent), equity (the quote balance if absent), last_price (null if absent) and
\* position when it is an object (null otherwise), and the update event carries run_id
\* and these same values, the position being the one persisted
C21_SnapshotAndUpdate ==
    BalanceCalled =>
        LET p == nIn.trade.f
            quote == NumberOr(p, "quote_balance", Num(0))
            base == NumberOr(p, "base_balance", Num(0))
            equity == NumberOr(p, "equity", quote)
            last == NumberOr(p, "last_price", Null)
            pos == IF Get(p, "position").t = "object" THEN Get(p, "position") ELSE Null
        IN  /\ nOut.row.quote_balance = quote /\ nOut.row.base_balance = base
            /\ nOut.row.equity = equity /\ nOut.row.last_price = last
            /\ nOut.row.position = pos
            /\ nOut.update.f = [run_id |-> RunIdValue("r1"), quote_balance |-> quote,
                                base_balance |-> base, equity |-> equity,
                                last_price |-> last, position |-> pos]

\* x is the quotient num / den as JavaScript computes it (NaN for 0 / 0, Infinity for
\* a division of a non-zero number by 0)
IsQuotient(x, num, den) ==
    IF den = 0 THEN x.k = (IF num = 0 THEN "nan" ELSE "infinity")
    ELSE x.k = "ratio" /\ x.num * den = num * x.den

\* the stored pnl_percent of a trade whose pnl is the number P
PnlPercentIs(x, p, P) ==
    LET E == ToNumber(Get(p, "entry_price"))
        Q == NumberOr(p, "quantity", Num(1))
    IN  IF ~IsNullish(Get(p, "pnl_percent"))
        THEN IsQuotient(x, ToNumber(Get(p, "pnl_percent")).n, 1)
        ELSE IF IsNullish(Get(p, "entry_price")) \/ E = Num(0) THEN IsQuotient(x, 0, 1)
        ELSE IF E.t = "number" THEN IsQuotient(x, P.n * 100, E.n * Q.n)
        ELSE TRUE

\* C24 (as claimed): the stored pnl_percent is the supplied one when present, else
\* (pnl / (entry_price * quantity)) * 100 for a non-zero entry_price and 0 for a zero
\* or absent one, with pnl 0 and quantity 1 when absent
C24_PnlPercent ==
    TradeCalled =>
        PnlPercentIs(nOut.row.pnl_percent, nIn.trade.f, NumberOr(nIn.trade.f, "pnl", Num(0)))

\* C24 (amended): as claimed, with pnl being payload.pnl, else payload.net_pnl, else 0,
\* and with 0 stored also for an entry_price that is no number
C24_PnlPercentNetPnl ==
    TradeCalled =>
        LET p == nIn.trade.f
            P == NumberOr(p, "pnl", NumberOr(p, "net_pnl", Num(0)))
        IN  /\ PnlPercentIs(nOut.row.pnl_percent, p, P)
            /\ nOut.row.pnl = P
            /\ (IsNullish(Get(p, "pnl_percent")) /\ ToNumber(Get(p, "entry_price")).t = "nan")
                   => IsQuotient(nOut.row.pnl_percent, 0, 1)

\* C24 witness: no pnl and no pnl_percent, net_pnl 30 on 2 units entered at 100: 15 %
C24_Witness ==
    /\ TradeCalled
    /\ nIn.trade.f = [entry_price |-> Num(100), quantity |-> Num(2), net_pnl |-> Num(30)]
    /\ nOut.row.pnl_percent = [k |-> "ratio", num |-> 3000, den |-> 200]

\* C22 (as claimed): no status value is refused; the step that commits a status event
\* sets the run's status to the supplied value and leaves the rest of the row as it
\* was; and every "status" publish belongs to a committed status event and carries its
\* raw payload
C22_StatusVerbatim ==
    /\ [](/\ \A i \in EventIds :
                events[i].event_type = "status" => events[i].err.message # InvalidInput
          /\ \A k \in 1..Len(pubLog) :
                pubLog[k].event = "status" =>
                    /\ events[pubLog[k].ev].event_type = "status"
                    /\ events[pubLog[k].ev].committed
                    /\ pubLog[k].payload = events[pubLog[k].ev].payload)
    /\ [][\A i \in 1..Len(events) :
            LET e == events[i]
            IN  (e.event_type = "status" /\ ~e.committed /\ events'[i].committed) =>
                    \A r \in RunIds :
                        paper_runs'[r] =
                            IF r = e.run_id /\ paper_runs[r].exists
                            THEN [paper_runs[r] EXCEPT
                                      !.status = Coalesce(Get(e.payload.f, "status"), Null)]
                            ELSE paper_runs[r]]_vars

\* the event is a position, error or candle event that passed the validation
Fanout(e) == ~Invalid(e) /\ e.event_type \in {"position", "error", "candle"}

\* C23: a position, error or candle event is answered in the step that receives it,
\* and that step changes no snapshot, no trade row and no pool checkout and commits
\* nothing; its one effect is one publish for the run_id of the envelope, carrying the
\* raw payload (position, error) or the fields of the payload and a run_id (candle)
C23_PureFanout ==
    /\ [](\A i \in EventIds :
            LET e == events[i]
            IN  Fanout(e) =>
                    /\ e.pc = "done" /\ ~e.committed /\ e.writes = 0 /\ ~e.lock
                    /\ RowsOf(i) = {}
                    /\ e.res = SuccessResponse
                    /\ \E k \in PublishesOf(i) :
                           /\ PublishesOf(i) = {k}
                           /\ pubLog[k].run_id = e.run_id
                           /\ pubLog[k].event = e.event_type
                           /\ Recipients(k) \subseteq pubLog[k].members
                           /\ IF e.event_type = "candle"
                              THEN /\ DOMAIN pubLog[k].payload.f
                                          = DOMAIN Spread(e.payload) \cup {"run_id"}
                                   /\ \A f \in DOMAIN Spread(e.payload) :
                                          pubLog[k].payload.f[f] = Spread(e.payload)[f]
                              ELSE pubLog[k].payload = e.payload)
    /\ [][(Len(events') = Len(events) + 1 /\ Fanout(events'[Len(events')])) =>
              /\ paper_runs' = paper_runs /\ trades' = trades
              /\ checkedOut' = checkedOut
              /\ SubSeq(events', 1, Len(events)) = events
              /\ Len(pubLog') = Len(pubLog) + 1
              /\ SubSeq(pubLog', 1, Len(pubLog)) = pubLog
              /\ rooms' = rooms /\ subs' = subs /\ connected' = connected]_vars

\* C23 witness: a position event and a candle event for r1 were published to s1 while
\* the run kept the snapshot it was created with and no pool client was taken
C23_Witness ==
    /\ Len(events) = 2
    /\ events[1].event_type = "position" /\ events[2].event_type = "candle"
    /\ events[1].run_id = "r1" /\ events[2].run_id = "r1"
    /\ pubLog[1].payload = events[1].payload
    /\ Get(pubLog[2].payload.f, "price") = Num(100)
    /\ Recipients(1) = {"s1"} /\ Recipients(2) = {"s1"}
    /\ paper_runs["r1"] = NewRun("u1", Num(1000))
    /\ trades = <<>> /\ checkedOut = 0

\* the "update" publishes made for run r
UpdatesOf(r) == {k \in 1..Len(pubLog) : pubLog[k].event = "update" /\ pubLog[k].run_id = r}

\* C25 (as claimed): while no balance event of a run is in flight, the update event
\* published last for the run carries the quote balance, base balance, equity and last
\* price of its persisted snapshot
C25_PublishOrder ==
    \A r \in RunIds :
        (/\ paper_runs[r].exists
         /\ UpdatesOf(r) # {}
         /\ \A i \in EventIds :
                (events[i].event_type = "balance" /\ events[i].run_id = r) => ~InFlight(i)) =>
            LET k == CHOOSE k \in UpdatesOf(r) : \A j \in UpdatesOf(r) : j <= k
                p == pubLog[k].payload.f
            IN  /\ p.quote_balance = paper_runs[r].quote_balance
                /\ p.base_balance = paper_runs[r].base_balance
                /\ p.equity = paper_runs[r].equity
                /\ p.last_price = paper_runs[r].last_price

\* C29: the pool has as many clients checked out as there are trade, balance and status
\* handlers in flight, none when no handler is in flight; the step that ends a handler
\* (after COMMIT, after ROLLBACK, after a ROLLBACK that failed) gives back one client,
\* and no other step gives back any
C29_ReleasedOnce ==
    /\ [](/\ checkedOut = Cardinality({i \in EventIds : InFlight(i)})
          /\ (\A i \in EventIds : ~InFlight(i)) => checkedOut = 0
          /\ \A i \in EventIds : InFlight(i) => events[i].event_type \in TxTypes)
    /\ [][/\ \A i \in 1..Len(events) :
                (InFlight(i) /\ events'[i].pc = "done") => checkedOut' = checkedOut - 1
          /\ checkedOut' < checkedOut =>
                \E i \in 1..Len(events) : InFlight(i) /\ events'[i].pc = "done"]_vars

\* C29 witness: one handler ended after its COMMIT, the other after the ROLLBACK that
\* followed a refused UPDATE, and the pool has all its clients back
C29_Witness ==
    /\ Len(events) = 2
    /\ events[1].pc = "done" /\ events[1].committed /\ events[1].event_type = "balance"
    /\ events[2].pc = "done" /\ events[2].event_type = "status"
    /\ events[2].err.message = InvalidInput
    /\ checkedOut = 0

\* event i commits in this step
CommitsNow(i) == ~events[i].committed /\ events'[i].committed

\* C26: a status event whose UPDATE matched a STOPPED run sets the status to the value
\* the engine supplied when it commits, and a balance event whose UPDATE matched a
\* STOPPED run replaces the snapshot and leaves the run STOPPED
C26_NotAbsorbing ==
    [][\A i \in 1..Len(events) :
          LET e == events[i]
              r == e.run_id
          IN  (/\ CommitsNow(i) /\ e.lock
               /\ paper_runs[r].exists /\ paper_runs[r].status = Str(STOPPED)) =>
                  /\ e.event_type = "status" =>
                         /\ paper_runs'[r].status = Coalesce(Get(e.payload.f, "status"), Null)
                         /\ Snapshot(paper_runs'[r]) = Snapshot(paper_runs[r])
                  /\ e.event_type = "balance" =>
                         /\ Snapshot(paper_runs'[r]) = SnapshotOf(BalanceValues(e.payload))
                         /\ paper_runs'[r].status = Str(STOPPED)]_vars

\* C26 witness: the launch of the run failed and the fallback stopped it, its owner
\* stopped it as well, and the run is ACTIVE with the snapshot of a balance event: the
\* status event was the last to write the status
C26_Witness ==
    /\ Len(calls) = 2 /\ Len(events) = 2
    /\ calls[1].op = "start" /\ calls[1].fallback = "ok" /\ calls[1].pc = "done"
    /\ calls[2].op = "stop" /\ calls[2].res = 200
    /\ \E i, j \in EventIds :
           /\ events[i].event_type = "status" /\ events[i].committed
           /\ events[j].event_type = "balance" /\ events[j].committed
    /\ paper_runs["r1"].status = Str(ACTIVE)
    /\ paper_runs["r1"].quote_balance = Num(500)

\* C27: a balance or status event whose UPDATE finds no row of its run fails only when
\* the database fails: the statement matches nothing and takes no lock, its COMMIT
\* changes no row, and the handler then publishes the update or status event for the
\* run_id of the envelope and answers success
C27_MissingRunNoError ==
    [][\A i \in 1..Len(events) :
          LET e == events[i]
              d == events'[i]
              missing == ~paper_runs[e.run_id].exists
          IN  e.event_type \in {"balance", "status"} =>
                  /\ (e.pc = "WRITE" /\ missing /\ d.pc = "ROLLBACK") =>
                         d.err.message = DatabaseError
                  /\ (e.pc = "WRITE" /\ missing /\ d.pc = "COMMIT") => ~d.lock
                  /\ (CommitsNow(i) /\ ~e.lock) =>
                         paper_runs' = paper_runs /\ trades' = trades
                  /\ (e.pc = "committed" /\ d.pc = "done") =>
                         /\ d.res = SuccessResponse /\ d.err = NoError
                         /\ Len(pubLog') = Len(pubLog) + 1
                         /\ pubLog'[Len(pubLog')].ev = i
                         /\ pubLog'[Len(pubLog')].run_id = e.run_id
                         /\ pubLog'[Len(pubLog')].event = EventName(e.event_type)
                         /\ paper_runs' = paper_runs /\ trades' = trades]_vars

\* C27 witness: no run was ever started, and a status and a balance event for r1 were
\* both committed, published and answered with success
C27_Witness ==
    /\ calls = <<>>
    /\ \A r \in RunIds : ~paper_runs[r].exists
    /\ Len(events) = 2
    /\ {events[1].event_type, events[2].event_type} = {"balance", "status"}
    /\ \A i \in EventIds : /\ events[i].committed /\ events[i].res = SuccessResponse
                           /\ Cardinality(PublishesOf(i)) = 1
    /\ {pubLog[k].event : k \in 1..Len(pubLog)} = {"update", "status"}

\* C28 (as claimed): the run_id of every PAPER trade row is the id of a run that has a
\* row in paper_runs
C28_TradesHaveRun ==
    \A k \in 1..Len(trades) :
        trades[k].row.run_type = "PAPER" => paper_runs[trades[k].row.run_id].exists

\* the call appended in this step
NewestCall == calls'[Len(calls')]

\* C30: a stop, get or delete call of a user who has no row of that run ends at once
\* with 404 (500 when the query itself fails), never reaches the engine, returns no
\* run and no trades and changes no row; a row changes only in a step of a call of its
\* owner; a response carries only a run of the caller; an answered call stays as it
\* is.  The event route publishes every event, whatever its run id, to every socket
\* that joined the room of that id, and a join adds the membership it names.
C30_OwnerScoped ==
    /\ [](/\ \A k \in 1..Len(calls) :
                LET c == calls[k]
                IN  /\ c.res = 404 => (c.pc = "done" /\ c.data = NoData)
                    /\ c.data.run.exists => c.data.run.user_id = c.user
                    /\ c.data.trades # <<>> => c.data.run.exists
          /\ \A i \in EventIds :
                /\ events[i].res = SuccessResponse
                /\ \E k \in PublishesOf(i) :
                       /\ pubLog[k].run_id = events[i].run_id
                       /\ pubLog[k].sent => Recipients(k) = Subscribers(pubLog[k].run_id)
                                                             \cap pubLog[k].members
          /\ rooms = {<<JoinRoom(m[2]), m[1]>> : m \in subs})
    /\ [][/\ Len(calls') = Len(calls) + 1 =>
                LET c == NewestCall
                    row == paper_runs[c.run]
                IN  ~(row.exists /\ row.user_id = c.user) =>
                        /\ c.pc = "done" /\ c.res \in {404, 500} /\ c.data = NoData
                        /\ paper_runs' = paper_runs /\ trades' = trades
          /\ \A k \in 1..Len(calls) : calls[k].pc = "done" => calls'[k] = calls[k]
          /\ \A r \in RunIds :
                paper_runs'[r] # paper_runs[r] =>
                    \E k \in 1..Len(calls') :
                        /\ k <= Len(calls) => calls'[k] # calls[k]
                        /\ calls'[k].run = r
                        /\ calls'[k].user = paper_runs[r].user_id
          /\ trades' = trades]_vars

\* C30 witness: u2 asked to stop, read and delete the run of u1 and got 404 three
\* times, the run and its trade row being as they were; a socket joined the rooms of
\* r1 and of an id without a run and was sent the position events of both
C30_Witness ==
    /\ Len(calls) = 3
    /\ \A k \in 1..3 : calls[k].user = "u2" /\ calls[k].run = "r1" /\ calls[k].res = 404
    /\ {calls[k].op : k \in 1..3} = {"stop", "get", "delete"}
    /\ paper_runs["r1"] = NewRun("u1", Num(1000))
    /\ Len(trades) = 1
    /\ {<<"s1", "r1">>, <<"s1", "r2">>} \subseteq subs
    /\ Len(pubLog) = 2
    /\ {pubLog[k].run_id : k \in inbox["s1"]} = {"r1", "r2"}

============================================================================
